---- MODULE Spec2Model ----
(***************************************************************************)
(* EasyConduit Telegram bot (src/bot/main.py): the persisted state         *)
(* document, the three-message chat UI, the update poller, the access gate *)
(* and the metrics aggregation, as a state machine.                        *)
(*                                                                         *)
(* Byte counters, seconds and message ids are naturals.  Time is counted   *)
(* in units of 10 seconds.                                                 *)
(***************************************************************************)
EXTENDS Integers, Sequences, FiniteSets, TLC

VARIABLES
    state,              \* the in-memory state document (dict `state` of _main_loop)
    disk,               \* bot_state.json as last written by save_state
    pc,                 \* "boot": process (re)started, _main_loop not yet in its loop; "loop"
    offset,             \* local `offset` of _main_loop (0 = None)
    last_dashboard_ts,  \* local `last_dashboard_ts` of _main_loop
    clock,              \* wall clock, time.time()
    today,              \* current UTC date, time.strftime("%Y-%m-%d", time.gmtime())
    tg,                 \* Telegram: the owner's chat, message id -> message
    inbox,              \* Telegram: updates not yet confirmed by a getUpdates offset
    batch,              \* updates fetched in this iteration and not yet handled
    next_update_id,     \* Telegram: id of the next update it will create
    conduit_env,        \* the conduit env file (MAX_CLIENTS, BANDWIDTH)
    calls,              \* outbound calls and commands of the step just taken, in order
    bootstrapped,       \* an owner /start has completed with all three sends succeeding
    budget,             \* disturbances so far
    handled,            \* ids of the updates whose loop body ran to its end (done), and of
                        \* those whose handler made all its outbound calls (sent)
    last,               \* the handler that ran in the step just taken (kind, chat, token, inputs)
    prev,               \* the state document before the last aggregation step
    appended,           \* every sample appended to each history buffer, in order
    steps,              \* number of samples taken so far
    runtime,            \* bot_runtime.conf: the settings that have a non-empty value
    files               \* bot_state.json and bot_state.json.tmp as written so far, chunk
                        \* by chunk (followed by SpecSave; elsewhere a save is one step)

\* what the aggregation steps of SpecTraffic, SpecHistory and SpecDaily leave alone
botVars == <<disk, pc, offset, last_dashboard_ts, clock, tg, inbox, batch,
             next_update_id, conduit_env, calls, bootstrapped, budget, handled>>

vars == <<state, disk, pc, offset, last_dashboard_ts, clock, today, tg, inbox, batch,
          next_update_id, conduit_env, calls, bootstrapped, budget, handled, last, prev,
          appended, steps, runtime, files>>

-----------------------------------------------------------------------------
(* Bounds of the model *)

MaxMsg == 5             \* message ids Telegram hands out in the owner's chat
MaxUpdates == 2         \* updates Telegram creates
MaxElapse == 2          \* refresh intervals that pass
MaxDisturb == 2         \* disturbances: API calls that fail with a network error,
                        \* messages the owner deletes by hand, kills of the process
MaxDays == 2            \* UTC dates that pass
MaxMainSamples == 2     \* non-empty metrics samples fetched by the bot's handlers (Spec)
MaxTrafficSamples == 5  \* samples fed to update_lifetime_traffic (SpecTraffic)
MaxHistSamples == 45    \* samples appended to the history buffers (SpecHistory)
MaxResets == 1          \* upstream counter resets in SpecHistory
MaxDailySamples == 4    \* samples fed to update_client_seconds_today (SpecDaily)
MaxTicks == 3           \* steps of ten seconds the clock makes (SpecStatus)

(* Program constants *)

_HISTORY_MAX == 40
update_interval == 3            \* 30.0 s
status_rate_limit_sec == 1      \* 10 s
interval_sec == 30              \* seconds credited per sample
Epoch == 3                      \* time.time() at the first iteration: >= update_interval

\* owner_chat_id of a state document that has none
NoOwner == ""

OwnerChat == "owner"
StrangerChat == "stranger"
Chats == {OwnerChat, StrangerChat}
Slots == {"dashboard", "status", "command"}

-----------------------------------------------------------------------------
(* Python dicts: a function whose domain is the set of keys present *)

Get(d, k, default) == IF k \in DOMAIN d THEN d[k] ELSE default

Put(d, k, v) == [x \in (DOMAIN d) \cup {k} |-> IF x = k THEN v ELSE d[x]]

Del(d, k) == [x \in (DOMAIN d) \ {k} |-> d[x]]

EmptyDict == <<>>

Truthy(d) == DOMAIN d # {}

-----------------------------------------------------------------------------
(* Metrics aggregation *)

\* the lists' last n elements: traffic[-n:]
LastN(s, n) == IF Len(s) <= n THEN s ELSE SubSeq(s, Len(s) - n + 1, Len(s))

update_lifetime_traffic_noreset(st, metrics) ==
    LET cur_up == Get(metrics, "conduit_bytes_uploaded", 0)
        cur_down == Get(metrics, "conduit_bytes_downloaded", 0)
    IN  [st EXCEPT
            !.lifetime_bytes_uploaded = @ + (cur_up - st.last_seen_bytes_uploaded),
            !.lifetime_bytes_downloaded = @ + (cur_down - st.last_seen_bytes_downloaded),
            !.last_seen_bytes_uploaded = cur_up,
            !.last_seen_bytes_downloaded = cur_down]

update_lifetime_traffic_swapped(st, metrics) ==
    LET cur_up == Get(metrics, "conduit_bytes_uploaded", 0)
        cur_down == Get(metrics, "conduit_bytes_downloaded", 0)
        last_up == st.last_seen_bytes_uploaded
        last_down == st.last_seen_bytes_downloaded
    IN  [st EXCEPT
            !.lifetime_bytes_uploaded =
                IF cur_up >= last_up THEN @ + (cur_up - last_up) ELSE @ + cur_up,
            !.lifetime_bytes_downloaded =
                IF cur_down >= last_down THEN @ + (cur_down - last_down) ELSE @ + cur_down,
            !.last_seen_bytes_uploaded = cur_up,
            !.last_seen_bytes_downloaded = cur_down]

update_lifetime_traffic(st, metrics) ==
    LET cur_up == Get(metrics, "conduit_bytes_uploaded", 0)
        cur_down == Get(metrics, "conduit_bytes_downloaded", 0)
        last_up == st.last_seen_bytes_uploaded
        last_down == st.last_seen_bytes_downloaded
    IN  [st EXCEPT
            !.lifetime_bytes_uploaded =
                IF cur_up >= last_up THEN @ + (cur_up - last_up) ELSE @,
            !.lifetime_bytes_downloaded =
                IF cur_down >= last_down THEN @ + (cur_down - last_down) ELSE @,
            !.last_seen_bytes_uploaded = cur_up,
            !.last_seen_bytes_downloaded = cur_down]

update_client_seconds_today_noreset(st, connected, day) ==
    [st EXCEPT !.client_seconds_today = @ + connected * interval_sec,
               !.last_day_utc = day]

update_client_seconds_today(st, connected, day) ==
    LET s1 == IF st.last_day_utc # day
              THEN [st EXCEPT !.client_seconds_today = 0, !.last_day_utc = day]
              ELSE st
    IN  [s1 EXCEPT !.client_seconds_today = @ + connected * interval_sec]

append_metrics_history_untrimmed(st, metrics) ==
    LET up == Get(metrics, "conduit_bytes_uploaded", 0)
        down == Get(metrics, "conduit_bytes_downloaded", 0)
    IN  [st EXCEPT !.traffic_history = Append(@, <<up, down>>)]

append_metrics_history(st, metrics) ==
    LET up == Get(metrics, "conduit_bytes_uploaded", 0)
        down == Get(metrics, "conduit_bytes_downloaded", 0)
        traffic == Append(st.traffic_history, <<up, down>>)
    IN  [st EXCEPT !.traffic_history =
            IF Len(traffic) > _HISTORY_MAX THEN LastN(traffic, _HISTORY_MAX) ELSE traffic]

append_lifetime_history(st) ==
    LET hist == Append(st.lifetime_history,
                       <<st.lifetime_bytes_uploaded, st.lifetime_bytes_downloaded>>)
    IN  [st EXCEPT !.lifetime_history =
            IF Len(hist) > _HISTORY_MAX THEN LastN(hist, _HISTORY_MAX) ELSE hist]

\* the four calls made for a non-empty sample (periodic tick, /start, stop_conduit_confirm)
TakeSample(st, metrics, day) ==
    LET s1 == update_lifetime_traffic(st, metrics)
        s2 == append_lifetime_history(s1)
        s3 == append_metrics_history(s2, metrics)
        connected == Get(metrics, "conduit_connected_clients", 0)
    IN  update_client_seconds_today(s3, connected, day)

-----------------------------------------------------------------------------
(* The state document *)

\* bot_state.json as the installer leaves it: only owner_chat_id is set
InstalledState ==
    [owner_chat_id |-> OwnerChat,
     dashboard_message_ids |-> EmptyDict,
     status_message_ids |-> EmptyDict,
     command_message_ids |-> EmptyDict,
     last_update_id |-> 0,
     last_status_press |-> EmptyDict,
     last_good_metrics |-> EmptyDict,
     last_seen_bytes_uploaded |-> 0,
     last_seen_bytes_downloaded |-> 0,
     lifetime_bytes_uploaded |-> 0,
     lifetime_bytes_downloaded |-> 0,
     traffic_history |-> <<>>,
     lifetime_history |-> <<>>,
     client_seconds_today |-> 0,
     last_day_utc |-> 0]

\* load_runtime_conf: the keys that must be present with a non-empty value
required == {"BOT_TOKEN", "METRICS_URL", "CONDUIT_ENV_PATH", "STATE_DIR"}

\* chunks json.dump writes for one document
Chunks == 2

\* a file of the state directory: the document being written and how many of its
\* chunks are in the file; Absent: no such file
File(doc, n) == [doc |-> doc, written |-> n]

Absent == [doc |-> EmptyDict, written |-> -1]

InstalledFiles == [json |-> File(InstalledState, Chunks), tmp |-> Absent]

NoOp ==
    [op |-> "none", chat |-> "", data |-> "", render |-> "", metrics |-> EmptyDict, day |-> 0,
     twice |-> FALSE]

NoSamples == [traffic |-> <<>>, lifetime |-> <<>>]

Init ==
    /\ state = InstalledState
    /\ disk = InstalledState
    /\ pc = "boot"
    /\ offset = 0
    /\ last_dashboard_ts = 0
    /\ clock = Epoch
    /\ today = 1
    /\ tg = <<>>
    /\ inbox = <<>>
    /\ batch = <<>>
    /\ next_update_id = 1
    /\ conduit_env = EmptyDict
    /\ calls = <<>>
    /\ bootstrapped = FALSE
    /\ budget = 0
    /\ handled = [done |-> {}, sent |-> {}]
    /\ last = NoOp
    /\ prev = InstalledState
    /\ appended = NoSamples
    /\ steps = 0
    /\ runtime = required
    /\ files = InstalledFiles

-----------------------------------------------------------------------------
(* SpecTraffic: update_lifetime_traffic applied to sequences of samples *)

ByteValuesUp == {0, 500, 800, 1000, 2000}
ByteValuesDown == {0, 1000}

Sample(u, d) ==
    [k \in {"conduit_bytes_uploaded", "conduit_bytes_downloaded"} |->
        IF k = "conduit_bytes_uploaded" THEN u ELSE d]

\* complete samples, and samples whose upload line is missing or malformed
TrafficInputs ==
    { Sample(u, d) : u \in ByteValuesUp, d \in ByteValuesDown }
    \cup { [k \in {"conduit_bytes_downloaded"} |-> d] : d \in ByteValuesDown }

TrafficStep ==
    /\ steps < MaxTrafficSamples
    /\ \E m \in TrafficInputs :
        /\ prev' = state
        /\ state' = update_lifetime_traffic(state, m)
        /\ last' = [NoOp EXCEPT !.op = "update_lifetime_traffic", !.metrics = m]
    /\ steps' = steps + 1
    /\ UNCHANGED <<botVars, today, appended>>
    /\ UNCHANGED <<runtime, files>>

NextTraffic == TrafficStep

SpecTraffic == Init /\ [][NextTraffic]_vars

\* C4: for any sequence of samples fed to update_lifetime_traffic, upstream drops
\* included, lifetime_bytes_uploaded and lifetime_bytes_downloaded never decrease
\* from one sample to the next.
C4_LifetimeMonotone ==
    [][ /\ state'.lifetime_bytes_uploaded >= state.lifetime_bytes_uploaded
        /\ state'.lifetime_bytes_downloaded >= state.lifetime_bytes_downloaded ]_vars

\* a sample below the stored value arrived after bytes had been credited, in each direction
C4_Witness ==
    /\ last.op = "update_lifetime_traffic"
    /\ Get(last.metrics, "conduit_bytes_uploaded", 0) < prev.last_seen_bytes_uploaded
    /\ Get(last.metrics, "conduit_bytes_downloaded", 0) < prev.last_seen_bytes_downloaded
    /\ prev.lifetime_bytes_uploaded > 0
    /\ prev.lifetime_bytes_downloaded > 0

\* the lifetime upload totals after each of a sequence of upload samples
RECURSIVE FeedUploads(_, _)
FeedUploads(st, ups) ==
    IF ups = <<>> THEN <<>>
    ELSE LET s1 == update_lifetime_traffic(st, Sample(Head(ups), 0))
         IN  <<s1.lifetime_bytes_uploaded>> \o FeedUploads(s1, Tail(ups))

Credit(cur, seen) == IF cur >= seen THEN cur - seen ELSE 0

\* C5: one call with sample cur and stored value seen adds cur - seen to the lifetime
\* total of that direction when cur >= seen and nothing when cur < seen, sets last_seen
\* to cur, each direction on its own; uploads 0, 1000, 2000, 500, 800 from the empty
\* state give the totals 0, 1000, 2000, 2000, 2300.
C5_DeltaRule ==
    /\ last.op = "update_lifetime_traffic" =>
        LET cur_up == Get(last.metrics, "conduit_bytes_uploaded", 0)
            cur_down == Get(last.metrics, "conduit_bytes_downloaded", 0)
        IN  /\ state.lifetime_bytes_uploaded =
                 prev.lifetime_bytes_uploaded + Credit(cur_up, prev.last_seen_bytes_uploaded)
            /\ state.lifetime_bytes_downloaded =
                 prev.lifetime_bytes_downloaded
                     + Credit(cur_down, prev.last_seen_bytes_downloaded)
            /\ state.last_seen_bytes_uploaded = cur_up
            /\ state.last_seen_bytes_downloaded = cur_down
    /\ FeedUploads(InstalledState, <<0, 1000, 2000, 500, 800>>)
           = <<0, 1000, 2000, 2000, 2300>>

\* the end of the example run: the fifth sample, 800 after 500, with 2300 credited
\* in all, while the download counter dropped in the same call
C5_Witness ==
    /\ last.op = "update_lifetime_traffic"
    /\ steps = 5
    /\ prev.last_seen_bytes_uploaded = 500
    /\ Get(last.metrics, "conduit_bytes_uploaded", 0) = 800
    /\ state.lifetime_bytes_uploaded = 2300
    /\ Get(last.metrics, "conduit_bytes_downloaded", 0) < prev.last_seen_bytes_downloaded

\* the state after a sequence of samples
RECURSIVE FeedSamples(_, _)
FeedSamples(st, ms) ==
    IF ms = <<>> THEN st
    ELSE FeedSamples(update_lifetime_traffic(st, Head(ms)), Tail(ms))

\* C37: the lifetime total never credits the same upstream bytes twice: a non-empty
\* sample without the upload line is not taken as an upload counter of 0, so it
\* leaves last_seen_bytes_uploaded and the upload total as they were; with the
\* upstream counter standing at 1000 in the samples before and after such a sample,
\* the total is 1000.
C37_NoDoubleCredit ==
    [][ /\ (last'.op = "update_lifetime_traffic"
             /\ "conduit_bytes_uploaded" \notin DOMAIN last'.metrics) =>
                /\ state'.last_seen_bytes_uploaded = state.last_seen_bytes_uploaded
                /\ state'.lifetime_bytes_uploaded = state.lifetime_bytes_uploaded
        /\ FeedSamples(InstalledState,
                       <<Sample(1000, 0), [k \in {"conduit_bytes_downloaded"} |-> 0],
                         Sample(1000, 0)>>).lifetime_bytes_uploaded = 1000
      ]_vars

-----------------------------------------------------------------------------
(* SpecHistory: the samples of a run appended to both history buffers *)

Zeros(s) == Cardinality({i \in 1..Len(s) : s[i][1] = 0})

\* the upstream counters grow, or restart from zero
HistStep ==
    /\ steps < MaxHistSamples
    /\ \E u \in {state.last_seen_bytes_uploaded + 1} \cup
                (IF Zeros(appended.traffic) < MaxResets THEN {0} ELSE {}) :
        LET m == Sample(u, 2 * u)
            s1 == update_lifetime_traffic(state, m)
            s2 == append_lifetime_history(s1)
            s3 == append_metrics_history(s2, m)
        IN  /\ prev' = state
            /\ state' = s3
            /\ last' = [NoOp EXCEPT !.op = "append_history", !.metrics = m]
            /\ appended' =
                 [traffic |-> Append(appended.traffic, <<u, 2 * u>>),
                  lifetime |-> Append(appended.lifetime,
                        <<s1.lifetime_bytes_uploaded, s1.lifetime_bytes_downloaded>>)]
    /\ steps' = steps + 1
    /\ UNCHANGED <<botVars, today>>
    /\ UNCHANGED <<runtime, files>>

NextHistory == HistStep

SpecHistory == Init /\ [][NextHistory]_vars

Min(a, b) == IF a < b THEN a ELSE b

\* buffer h holds the last min(n, 40) of the n samples of log, in their order
HoldsLast(h, log) ==
    /\ Len(h) = Min(Len(log), 40)
    /\ \A i \in 1..Len(h) : h[i] = log[Len(log) - Len(h) + i]

\* C6: after n appends from empty, traffic_history and lifetime_history each hold
\* exactly the last min(n, 40) appended samples in their original order; the length
\* never exceeds 40 and 45 appends leave samples 6..45.
C6_HistoryBound ==
    /\ HoldsLast(state.traffic_history, appended.traffic)
    /\ HoldsLast(state.lifetime_history, appended.lifetime)
    /\ Len(state.traffic_history) <= 40
    /\ Len(state.lifetime_history) <= 40
    /\ Len(appended.traffic) = 45 =>
         /\ state.traffic_history = SubSeq(appended.traffic, 6, 45)
         /\ state.lifetime_history = SubSeq(appended.lifetime, 6, 45)

\* 45 samples were appended, distinct enough to tell the dropped ones from the kept
C6_Witness ==
    /\ Len(appended.traffic) = 45
    /\ Len(state.traffic_history) = 40
    /\ Len(state.lifetime_history) = 40
    /\ appended.traffic[5] # appended.traffic[6]
    /\ state.traffic_history[1] = appended.traffic[6]
    /\ state.lifetime_history[40] = appended.lifetime[45]

-----------------------------------------------------------------------------
(* SpecDaily: update_client_seconds_today over samples and date changes *)

ConnectedValues == {0, 1, 2}

DailyStep ==
    /\ steps < MaxDailySamples
    /\ \E c \in ConnectedValues :
        /\ prev' = state
        /\ state' = update_client_seconds_today(state, c, today)
        /\ last' = [NoOp EXCEPT !.op = "update_client_seconds_today",
                                !.metrics = [k \in {"conduit_connected_clients"} |-> c],
                                !.day = today]
    /\ steps' = steps + 1
    /\ UNCHANGED <<botVars, today, appended>>
    /\ UNCHANGED <<runtime, files>>

\* midnight UTC passes
Midnight ==
    /\ today <= MaxDays
    /\ today' = today + 1
    /\ UNCHANGED <<botVars, state, last, prev, appended, steps>>
    /\ UNCHANGED <<runtime, files>>

NextDaily == DailyStep \/ Midnight

SpecDaily == Init /\ [][NextDaily]_vars

\* C7: called with V stored and a stored date other than the current UTC date, the
\* result is connected * interval alone and last_day_utc becomes the current date;
\* with the same date the result is V + connected * interval.
C7_DailyReset ==
    last.op = "update_client_seconds_today" =>
        LET c == last.metrics["conduit_connected_clients"]
        IN  /\ state.last_day_utc = last.day
            /\ prev.last_day_utc # last.day => state.client_seconds_today = c * 30
            /\ prev.last_day_utc = last.day =>
                 state.client_seconds_today = prev.client_seconds_today + c * 30

\* a sample arrived on a later date than the stored one, with V > 0 stored
C7_Witness ==
    /\ last.op = "update_client_seconds_today"
    /\ prev.last_day_utc # 0
    /\ prev.last_day_utc # last.day
    /\ prev.client_seconds_today > 0
    /\ last.metrics["conduit_connected_clients"] > 0
    /\ state.client_seconds_today < prev.client_seconds_today + 30

-----------------------------------------------------------------------------
(* Telegram, as the bot's calls see it *)

\* the status text and dashboard image a handler builds from metrics, config and
\* service status
Renderings == {"r1", "r2"}

CMD_DESK_MAIN_TEXT == "Main"

\* what a handler reads and writes while it runs
World(st) ==
    [st |-> st, dk |-> disk, tg |-> tg, env |-> conduit_env, ts |-> last_dashboard_ts,
     calls |-> <<>>, id |-> 0, res |-> "", raised |-> FALSE]

Logged(w, m, arg, res) ==
    [w EXCEPT !.calls = Append(@, [m |-> m, arg |-> arg, res |-> res])]

\* a message that was deleted
Gone == [kind |-> "", content |-> "", live |-> FALSE]

IsLive(chat, id) == id \in 1..Len(chat) /\ chat[id].live

\* sendPhoto, sendMessage into the owner's chat: a new message, or an exception
TgSend(w, m, slot, content, net) ==
    IF net /\ Len(w.tg) < MaxMsg
    THEN [Logged(w, m, slot, "ok") EXCEPT
            !.tg = Append(@, [kind |-> slot, content |-> content, live |-> TRUE]),
            !.id = Len(w.tg) + 1,
            !.res = "ok"]
    ELSE LET err == IF net THEN "retry later" ELSE "network error"
         IN  [Logged(w, m, slot, err) EXCEPT !.id = 0, !.res = err]

\* TelegramAPI._request on an answer with "ok": false, as the lowercased text of the
\* exception the caller gets: urlopen raises HTTPError for a status outside 2xx
\* before the body is read, otherwise the RuntimeError carries the description
_request(status, description) ==
    IF status = 200 THEN description ELSE "http error 400: bad request"

\* editMessageMedia / editMessageText, as the caller sees it; http: Telegram gives
\* its error answer the HTTP status 400 rather than 200
EditAnswer(chat, id, content, net, http) ==
    LET status == IF http THEN 400 ELSE 200
    IN  IF ~net THEN "network error"
        ELSE IF ~IsLive(chat, id) THEN _request(status, "message to edit not found")
        ELSE IF chat[id].content = content THEN _request(status, "message is not modified")
        ELSE "ok"

TgEdit(w, m, slot, id, content, net, http) ==
    LET a == EditAnswer(w.tg, id, content, net, http)
        w1 == [Logged(w, m, slot, a) EXCEPT !.res = a]
    IN  IF a = "ok" THEN [w1 EXCEPT !.tg[id].content = content] ELSE w1

\* deleteMessage: errors are swallowed
delete_message(w, slot, id, net) ==
    IF net /\ IsLive(w.tg, id)
    THEN [Logged(w, "deleteMessage", slot, "ok") EXCEPT !.tg[id] = Gone]
    ELSE Logged(w, "deleteMessage", slot,
                IF net THEN "message to delete not found" ELSE "network error")

answer_callback_query(w, text) == Logged(w, "answerCallbackQuery", text, "ok")

save_state(w) == [w EXCEPT !.dk = w.st]

-----------------------------------------------------------------------------
(* The chat UI reconciler *)

\* how the handlers classify the text of an edit error
Unchanged(err) == err = "message is not modified"

TargetMissing_always(err) == err # "ok"

TargetMissing(err) ==
    err \in {"message to edit not found", "message can't be edited", "message not found"}

\* the dict of message ids of a slot
IdsOf(st, slot) ==
    IF slot = "dashboard" THEN st.dashboard_message_ids
    ELSE IF slot = "status" THEN st.status_message_ids
    ELSE st.command_message_ids

WithIds(w, slot, ids) ==
    IF slot = "dashboard" THEN [w EXCEPT !.st.dashboard_message_ids = ids]
    ELSE IF slot = "status" THEN [w EXCEPT !.st.status_message_ids = ids]
    ELSE [w EXCEPT !.st.command_message_ids = ids]

\* ids[str(chat_id)] = message_id of the message just sent; skipped when the send raised
StoreId(w, slot, chat_id) ==
    IF w.id # 0 THEN WithIds(w, slot, Put(IdsOf(w.st, slot), chat_id, w.id)) ELSE w

\* one turn of the loop over the three stored ids: delete the message if an id is stored
DeleteIfSet(w, slot, chat_id, net) ==
    IF Get(IdsOf(w.st, slot), chat_id, 0) # 0
    THEN delete_message(w, slot, Get(IdsOf(w.st, slot), chat_id, 0), net)
    ELSE w

ClearIds(w, chat_id) ==
    [w EXCEPT !.st.dashboard_message_ids = Del(@, chat_id),
              !.st.status_message_ids = Del(@, chat_id),
              !.st.command_message_ids = Del(@, chat_id)]

delete_chat_ui_messages(w, chat_id, net) ==
    ClearIds(
        DeleteIfSet(
            DeleteIfSet(
                DeleteIfSet(w, "dashboard", chat_id, net["d1"]),
                "status", chat_id, net["d2"]),
            "command", chat_id, net["d3"]),
        chat_id)

\* send the message of a slot that has no stored id, and store the new id
SendIfUnset(w, m, slot, chat_id, content, net) ==
    IF Get(IdsOf(w.st, slot), chat_id, 0) = 0
    THEN StoreId(TgSend(w, m, slot, content, net), slot, chat_id)
    ELSE w

ensure_chat_messages(w, chat_id, render, net) ==
    SendIfUnset(
        SendIfUnset(
            SendIfUnset(w, "sendPhoto", "dashboard", chat_id, render, net["s1"]),
            "sendMessage", "status", chat_id, render, net["s2"]),
        "sendMessage", "command", chat_id, CMD_DESK_MAIN_TEXT, net["s3"])

Recreate_dropping(w, m, slot, chat_id, content, net) ==
    IF w.res = "ok" \/ Unchanged(w.res) THEN w
    ELSE IF TargetMissing(w.res)
    THEN WithIds(w, slot, Del(IdsOf(w.st, slot), chat_id))
    ELSE w

Recreate_clearing(w, m, slot, chat_id, content, net) ==
    IF w.res = "ok" \/ Unchanged(w.res) THEN w
    ELSE IF TargetMissing(w.res) /\ net /\ Len(w.tg) < MaxMsg
    THEN StoreId(TgSend(w, m, slot, content, net), slot, chat_id)
    ELSE IF TargetMissing(w.res)
    THEN WithIds(TgSend(w, m, slot, content, net), slot, Del(IdsOf(w.st, slot), chat_id))
    ELSE WithIds(w, slot, Del(IdsOf(w.st, slot), chat_id))

\* the except branch of an edit, w the world after the edit: nothing for a success or
\* an unmodified message, a replacement message for a missing target, nothing otherwise
Recreate(w, m, slot, chat_id, content, net) ==
    IF w.res = "ok" \/ Unchanged(w.res) THEN w
    ELSE IF TargetMissing(w.res)
    THEN StoreId(TgSend(w, m, slot, content, net), slot, chat_id)
    ELSE w

update_dashboard_for_chat_dashonly(w, chat_id, render, net, http) ==
    IF Get(w.st.dashboard_message_ids, chat_id, 0) = 0
    THEN w
    ELSE Recreate(
             TgEdit(
                 Recreate(
                     TgEdit(w, "editMessageMedia", "dashboard",
                            Get(w.st.dashboard_message_ids, chat_id, 0), render,
                            net["e1"], http["e1"]),
                     "sendPhoto", "dashboard", chat_id, render, net["s1"]),
                 "editMessageText", "status",
                 Get(w.st.status_message_ids, chat_id, 0), render, net["e2"], http["e2"]),
             "sendMessage", "status", chat_id, render, net["s2"])

update_dashboard_for_chat(w, chat_id, render, net, http) ==
    IF Get(w.st.dashboard_message_ids, chat_id, 0) = 0
       \/ Get(w.st.status_message_ids, chat_id, 0) = 0
    THEN w
    ELSE Recreate(
             TgEdit(
                 Recreate(
                     TgEdit(w, "editMessageMedia", "dashboard",
                            Get(w.st.dashboard_message_ids, chat_id, 0), render,
                            net["e1"], http["e1"]),
                     "sendPhoto", "dashboard", chat_id, render, net["s1"]),
                 "editMessageText", "status",
                 Get(w.st.status_message_ids, chat_id, 0), render, net["e2"], http["e2"]),
             "sendMessage", "status", chat_id, render, net["s2"])

edit_command_desk_absent(w, chat_id, text, net, http) == w

edit_command_desk(w, chat_id, text, net, http) ==
    IF Get(w.st.command_message_ids, chat_id, 0) = 0
    THEN StoreId(TgSend(w, "sendMessage", "command", text, net["s"]), "command", chat_id)
    ELSE Recreate(
             TgEdit(w, "editMessageText", "command",
                    Get(w.st.command_message_ids, chat_id, 0), text, net["e"], http["e"]),
             "sendMessage", "command", chat_id, text, net["s"])

-----------------------------------------------------------------------------
(* Service control and the config store *)

System(w, cmd) == Logged(w, "os.system", cmd, "ok")

set_conduit_param(w, key, value) ==
    [Logged(w, "set_conduit_param", key, "ok") EXCEPT !.env = Put(@, key, value)]

-----------------------------------------------------------------------------
(* The access gate and the button handlers *)

is_owner_open(chat_id, owner_chat_id) == TRUE

is_owner_inverted(chat_id, owner_chat_id) == chat_id # owner_chat_id

is_owner(chat_id, owner_chat_id) == chat_id = owner_chat_id

NOT_AUTHORIZED == "Not authorized. Only the chat ID set during installation can use this bot."

DeskTokens_cancel_to_main ==
    [cmd_configs |-> <<"Configs", "">>,
     cmd_limits |-> <<"Limits", "">>,
     cmd_bandwidth |-> <<"Bandwidth", "">>,
     back_main |-> <<"Main", "">>,
     back_configs |-> <<"Configs", "">>,
     cmd_restart_conduit |-> <<"ConfirmRestart", "">>,
     restart_conduit_cancel |-> <<"Main", "Cancelled.">>,
     cmd_stop_conduit |-> <<"ConfirmStop", "">>,
     stop_conduit_cancel |-> <<"Main", "Cancelled.">>,
     cmd_update |-> <<"ConfirmUpdate", "">>,
     update_cancel |-> <<"Main", "Cancelled.">>,
     cmd_reboot |-> <<"ConfirmReboot", "">>,
     cmd_info |-> <<"Info", "">>]

\* tokens whose handler is one edit_command_desk call and one acknowledgment:
\* token -> <<node shown, acknowledgment text>>
DeskTokens ==
    [cmd_configs |-> <<"Configs", "">>,
     cmd_limits |-> <<"Limits", "">>,
     cmd_bandwidth |-> <<"Bandwidth", "">>,
     back_main |-> <<CMD_DESK_MAIN_TEXT, "">>,
     back_configs |-> <<"Configs", "">>,
     cmd_restart_conduit |-> <<"ConfirmRestart", "">>,
     restart_conduit_cancel |-> <<CMD_DESK_MAIN_TEXT, "Cancelled.">>,
     cmd_stop_conduit |-> <<"ConfirmStop", "">>,
     stop_conduit_cancel |-> <<CMD_DESK_MAIN_TEXT, "Cancelled.">>,
     cmd_update |-> <<"ConfirmUpdate", "">>,
     update_cancel |-> <<"Configs", "Cancelled.">>,
     cmd_reboot |-> <<"ConfirmReboot", "">>,
     cmd_info |-> <<"Info", "">>]

\* int(data.split("_", 2)[2]) of the set_clients_ / set_bw_ tokens; -1: ValueError
SetClientsTokens ==
    [set_clients_50 |-> 50, set_clients_75 |-> 75, set_clients_100 |-> 100,
     set_clients_125 |-> 125, set_clients_150 |-> 150, set_clients_200 |-> 200,
     set_clients_250 |-> 250, set_clients_300 |-> 300,
     set_clients_60 |-> 60, set_clients_max |-> -1]

SetBwTokens ==
    [set_bw_5 |-> 5, set_bw_10 |-> 10, set_bw_15 |-> 15, set_bw_20 |-> 20,
     set_bw_25 |-> 25, set_bw_30 |-> 30, set_bw_40 |-> 40, set_bw_max |-> -1]

allowed == {50, 75, 100, 125, 150, 200, 250, 300}
allowed_bw == {5, 10, 15, 20, 25, 30}

Sampled_as_zeros(st, metrics, day) == TakeSample(st, metrics, day)

\* the sample block of a handler: nothing is aggregated for an empty dict
Sampled(st, metrics, day) == IF Truthy(metrics) THEN TakeSample(st, metrics, day) ELSE st

cmd_status_unlimited(w, chat_id, now) ==
    answer_callback_query(
        [w EXCEPT !.st.last_status_press = Put(@, chat_id, now), !.ts = 0],
        "Refreshing")

cmd_status(w, chat_id, now) ==
    LET t == Get(w.st.last_status_press, chat_id, 0)
    IN  IF now - t < status_rate_limit_sec
        THEN answer_callback_query(w, "Please wait before refreshing again.")
        ELSE answer_callback_query(
                 [w EXCEPT !.st.last_status_press = Put(@, chat_id, now), !.ts = 0],
                 "Refreshing")

set_clients_unchecked(w, data) ==
    LET mc == SetClientsTokens[data]
    IN  IF mc = -1 THEN answer_callback_query(w, "Invalid value.")
        ELSE answer_callback_query(
                 System(set_conduit_param(w, "MAX_CLIENTS", mc), "systemctl restart conduit"),
                 "Max clients set. Conduit restarting.")

set_clients(w, data) ==
    LET mc == SetClientsTokens[data]
    IN  IF mc = -1 THEN answer_callback_query(w, "Invalid value.")
        ELSE IF mc \in allowed
        THEN answer_callback_query(
                 System(set_conduit_param(w, "MAX_CLIENTS", mc), "systemctl restart conduit"),
                 "Max clients set. Conduit restarting.")
        ELSE answer_callback_query(w, "Use one of the preset values.")

set_bw(w, data) ==
    LET bw_val == SetBwTokens[data]
    IN  IF bw_val = -1 THEN answer_callback_query(w, "Invalid value.")
        ELSE IF bw_val \in allowed_bw
        THEN answer_callback_query(
                 System(set_conduit_param(w, "BANDWIDTH", bw_val), "systemctl restart conduit"),
                 "Bandwidth set. Conduit restarting.")
        ELSE answer_callback_query(w, "Use one of the preset values.")

stop_conduit_confirm_unstopped(w, chat_id, day, in) ==
    answer_callback_query(
        edit_command_desk(w, chat_id, CMD_DESK_MAIN_TEXT, in.net, in.http),
        "Conduit stopped. Status updated.")

stop_conduit_confirm(w, chat_id, day, in) ==
    LET w1 == System(w, "systemctl stop conduit")
        w2 == [w1 EXCEPT !.st = Sampled(@, in.metrics, day)]
        w3 == update_dashboard_for_chat(w2, chat_id, in.render, in.net, in.http)
        w4 == [w3 EXCEPT !.st.last_good_metrics = in.metrics]
        w5 == edit_command_desk(w4, chat_id, CMD_DESK_MAIN_TEXT, in.net, in.http)
    IN  answer_callback_query(w5, "Conduit stopped. Status updated.")

update_confirm_unsaved(w, chat_id, in) ==
    LET w1 == answer_callback_query(w, "Updating")
        w2 == edit_command_desk(w1, chat_id, CMD_DESK_MAIN_TEXT, in.net, in.http)
    IN  System(w2, "bash /opt/easyconduit/bin/update.sh")

update_confirm(w, chat_id, in) ==
    LET w1 == answer_callback_query(w, "Updating")
        w2 == edit_command_desk(w1, chat_id, CMD_DESK_MAIN_TEXT, in.net, in.http)
    IN  System(save_state(w2), "bash /opt/easyconduit/bin/update.sh")

unknown_token_resets(w, chat_id, in) ==
    answer_callback_query(
        edit_command_desk(w, chat_id, CMD_DESK_MAIN_TEXT, in.net, in.http), "")

\* the else branch of the dispatch: a token no branch names
unknown_token(w, chat_id, in) == answer_callback_query(w, "")

\* the branch of the callback dispatch taken by an owner's token; reboot_cancel
\* raises NameError (cmd_desk_main_text is not defined) before any call is made
dispatch(w, chat_id, data, now, day, in) ==
    IF data = "cmd_status" THEN cmd_status(w, chat_id, now)
    ELSE IF data \in DOMAIN SetClientsTokens THEN set_clients(w, data)
    ELSE IF data \in DOMAIN SetBwTokens THEN set_bw(w, data)
    ELSE IF data = "restart_conduit_confirm"
    THEN answer_callback_query(
             edit_command_desk(System(w, "systemctl restart conduit"), chat_id,
                               CMD_DESK_MAIN_TEXT, in.net, in.http),
             "Conduit restarted.")
    ELSE IF data = "stop_conduit_confirm" THEN stop_conduit_confirm(w, chat_id, day, in)
    ELSE IF data = "update_confirm" THEN update_confirm(w, chat_id, in)
    ELSE IF data = "reboot_confirm"
    THEN System(answer_callback_query(w, "Rebooting now"), "reboot")
    ELSE IF data = "reboot_cancel" THEN [w EXCEPT !.raised = TRUE]
    ELSE IF data \in DOMAIN DeskTokens
    THEN answer_callback_query(
             edit_command_desk(w, chat_id, DeskTokens[data][1], in.net, in.http),
             DeskTokens[data][2])
    ELSE unknown_token(w, chat_id, in)

\* the save that ends a callback branch; an exception raised in the branch leaves
\* the loop body before it
SaveUnlessRaised(w) == IF w.raised THEN w ELSE save_state(w)

\* one callback_query update, from the owner check to the save
handle_callback(w, owner_chat_id, chat_id, data, now, day, in) ==
    IF ~is_owner(chat_id, owner_chat_id)
    THEN answer_callback_query(w, NOT_AUTHORIZED)
    ELSE SaveUnlessRaised(dispatch(w, chat_id, data, now, day, in))

\* the owner's /start up to its save: teardown, sample, the three sends
start_ui(w, chat_id, day, in) ==
    LET w1 == delete_chat_ui_messages(w, chat_id, in.net)
        w2 == [w1 EXCEPT !.st = Sampled(@, in.metrics, day)]
    IN  ensure_chat_messages(w2, chat_id, in.render, in.net)

\* one /start message, from the owner check to the save
handle_start(w, owner_chat_id, chat_id, day, in) ==
    IF chat_id # owner_chat_id
    THEN Logged(w, "sendMessage", NOT_AUTHORIZED, IF in.net["s1"] THEN "ok" ELSE "network error")
    ELSE save_state(start_ui(w, chat_id, day, in))

\* the periodic refresh pass of one iteration
refresh(w, owner_chat_id, now, day, in) ==
    LET w1 == [w EXCEPT !.st.last_good_metrics = in.metrics]
        w2 == [w1 EXCEPT !.st = Sampled(@, in.metrics, day)]
        w3 == update_dashboard_for_chat(w2, owner_chat_id, in.render, in.net, in.http)
    IN  [save_state(w3) EXCEPT !.ts = now]

-----------------------------------------------------------------------------
(* Spec: the bot process, Telegram, the owner, a stranger and the clock *)

NetKeys == {"d1", "d2", "d3", "s1", "s2", "s3", "e1", "e2", "e", "s"}

\* which of a handler's API calls fail with a network error: the calls named in
\* keys may fail, the others succeed
Nets(keys) ==
    { [k \in NetKeys |-> k \notin F] :
        F \in {G \in SUBSET keys : Cardinality(G) <= MaxDisturb - budget} }

\* what fetch_metrics returns: the empty dict (metrics endpoint unreachable), or the
\* next sample
MainMetrics ==
    {EmptyDict} \cup
    (IF steps < MaxMainSamples
     THEN {[k \in {"conduit_bytes_uploaded", "conduit_bytes_downloaded",
                   "conduit_connected_clients"} |->
             IF k = "conduit_bytes_uploaded" THEN 1000 * (steps + 1)
             ELSE IF k = "conduit_bytes_downloaded" THEN 500 * (steps + 1)
             ELSE 1]}
     ELSE {})

EditKeys == {"e1", "e2", "e"}

\* whether Telegram gives the error answers of this iteration the HTTP status 400
Https(keys) ==
    { [k \in EditKeys |-> b] : b \in (IF keys \cap EditKeys = {} THEN {FALSE} ELSE BOOLEAN) }

Inputs(keys, metrics, renderings) ==
    [net : Nets(keys), http : Https(keys), metrics : metrics, render : renderings]

Owner == state.owner_chat_id

Due == clock - last_dashboard_ts >= update_interval

Max(a, b) == IF a > b THEN a ELSE b

Faults(cs) == Cardinality({i \in 1..Len(cs) : cs[i].res = "network error"})

Apply(w) ==
    /\ budget + Faults(w.calls) <= MaxDisturb
    /\ budget' = budget + Faults(w.calls)
    /\ state' = w.st
    /\ disk' = w.dk
    /\ tg' = w.tg
    /\ conduit_env' = w.env
    /\ calls' = w.calls
    /\ last_dashboard_ts' = w.ts

\* the record of the samples taken, kept beside the history buffers
Recorded(m) ==
    IF Truthy(m)
    THEN /\ steps' = steps + 1
         /\ appended' =
              LET s1 == update_lifetime_traffic(state, m)
              IN  [traffic |-> Append(appended.traffic,
                        <<Get(m, "conduit_bytes_uploaded", 0),
                          Get(m, "conduit_bytes_downloaded", 0)>>),
                   lifetime |-> Append(appended.lifetime,
                        <<s1.lifetime_bytes_uploaded, s1.lifetime_bytes_downloaded>>)]
    ELSE UNCHANGED <<steps, appended>>

OkSends(cs) ==
    Cardinality({i \in 1..Len(cs) :
        cs[i].m \in {"sendPhoto", "sendMessage"} /\ cs[i].arg \in Slots /\ cs[i].res = "ok"})

\* what load_runtime_conf and the owner_chat_id test of _main_loop let pass: every
\* required setting present, and an owner chat id in the loaded state
load_runtime_conf_lenient(conf, st) == TRUE

load_runtime_conf(conf, st) == required \subseteq conf /\ st.owner_chat_id # NoOwner

Launchable == load_runtime_conf(runtime, state)

restore_offset_none(st) == 0

\* the offset of the first getUpdates of a run: last_update_id + 1 when the loaded
\* state holds one, otherwise None (0)
restore_offset(st) == IF st.last_update_id # 0 THEN st.last_update_id + 1 ELSE 0

\* _main_loop up to its loop: offset restored from the loaded state, the command
\* desk set to the main view, the state saved
Startup ==
    /\ pc = "boot"
    /\ Launchable
    /\ \E in \in Inputs({"e", "s"}, {EmptyDict}, {""}) :
        LET w1 == edit_command_desk(World(state), Owner, CMD_DESK_MAIN_TEXT, in.net, in.http)
        IN  Apply(save_state(w1))
    /\ offset' = restore_offset(state)
    /\ pc' = "loop"
    /\ last' = [NoOp EXCEPT !.op = "startup"]
    /\ UNCHANGED <<clock, today, inbox, batch, next_update_id, bootstrapped, handled,
                   prev, appended, steps>>
    /\ UNCHANGED <<runtime, files>>

\* the process is killed between two handlers and started again: what was in
\* memory is lost, the state is loaded from disk
Restart ==
    /\ pc = "loop"
    /\ budget < MaxDisturb
    /\ budget' = budget + 1
    /\ pc' = "boot"
    /\ state' = disk
    /\ offset' = 0
    /\ last_dashboard_ts' = 0
    /\ batch' = <<>>
    /\ calls' = <<>>
    /\ last' = [NoOp EXCEPT !.op = "restart"]
    /\ UNCHANGED <<disk, clock, today, tg, inbox, next_update_id, conduit_env,
                   bootstrapped, handled, prev, appended, steps>>
    /\ UNCHANGED <<runtime, files>>

\* what is left of a handler that ended in world w when the process is killed before
\* its save
KilledIn(w) ==
    /\ budget' = budget + 1
    /\ state' = disk
    /\ disk' = disk
    /\ tg' = w.tg
    /\ conduit_env' = w.env
    /\ calls' = w.calls
    /\ last_dashboard_ts' = 0

\* the periodic refresh at the start of an iteration
Refresh ==
    /\ pc = "loop"
    /\ batch = <<>>
    /\ Due
    /\ \E in \in Inputs({"e1", "s1", "e2", "s2"}, MainMetrics, Renderings) :
        /\ Apply(refresh(World(state), Owner, clock, today, in))
        /\ Recorded(in.metrics)
        /\ last' = [NoOp EXCEPT !.op = "refresh", !.render = in.render,
                                !.metrics = in.metrics,
                                !.twice =
                                    LET d == Get(state.dashboard_message_ids, Owner, 0)
                                        t == Get(state.status_message_ids, Owner, 0)
                                    IN  /\ IsLive(tg, d) /\ tg[d].content = in.render
                                        /\ IsLive(tg, t) /\ tg[t].content = in.render]
    /\ UNCHANGED <<pc, offset, clock, today, inbox, batch, next_update_id, bootstrapped,
                   handled, prev>>
    /\ UNCHANGED <<runtime, files>>

\* getUpdates(offset): Telegram forgets the updates below offset and returns the rest
Poll ==
    /\ pc = "loop"
    /\ batch = <<>>
    /\ ~Due
    /\ inbox # <<>>
    /\ LET fresh == SelectSeq(inbox, LAMBDA u : u.update_id >= offset)
       IN  /\ inbox' = fresh
           /\ batch' = fresh
    /\ calls' = <<>>
    /\ last' = NoOp
    /\ UNCHANGED <<budget, handled>>
    /\ UNCHANGED <<state, disk, pc, offset, last_dashboard_ts, clock, today, tg,
                   next_update_id, conduit_env, bootstrapped, prev, appended, steps>>
    /\ UNCHANGED <<runtime, files>>

Advance_past_batch(upd) ==
    /\ offset' = Max(offset, batch[Len(batch)].update_id + 1)
    /\ handled' = [done |-> handled.done \cup {upd.update_id},
                   sent |-> handled.sent \cup {upd.update_id}]
    /\ UNCHANGED <<pc, clock, today, inbox, next_update_id, prev>>

Advance(upd) ==
    /\ offset' = Max(offset, upd.update_id + 1)
    /\ handled' = [done |-> handled.done \cup {upd.update_id},
                   sent |-> handled.sent \cup {upd.update_id}]
    /\ UNCHANGED <<pc, clock, today, inbox, next_update_id, prev>>

Seen_adopting(upd) ==
    World([state EXCEPT !.last_update_id = upd.update_id, !.owner_chat_id = upd.chat])

Seen(upd) == World([state EXCEPT !.last_update_id = upd.update_id])

CallbackInputs(upd) ==
    IF upd.chat # Owner THEN Inputs({}, {EmptyDict}, {""})
    ELSE IF upd.data = "stop_conduit_confirm"
    THEN Inputs({"e1", "s1", "e2", "s2", "e", "s"}, MainMetrics, Renderings)
    ELSE IF upd.data \in (DOMAIN DeskTokens) \cup {"restart_conduit_confirm", "update_confirm"}
    THEN Inputs({"e", "s"}, {EmptyDict}, {""})
    ELSE Inputs({}, {EmptyDict}, {""})

CallbackDone_going_on(w, in) ==
    /\ Apply(w)
    /\ Recorded(IF w.st.lifetime_history # state.lifetime_history
                THEN in.metrics ELSE EmptyDict)
    /\ batch' = Tail(batch)

\* the effects of a callback branch that ended in world w: an exception raised in it
\* ends the for loop over the batch
CallbackDone(w, in) ==
    /\ Apply(w)
    /\ Recorded(IF w.st.lifetime_history # state.lifetime_history
                THEN in.metrics ELSE EmptyDict)
    /\ batch' = IF w.raised THEN <<>> ELSE Tail(batch)

\* the loop body for an update that holds a callback_query
HandleCallback ==
    /\ pc = "loop"
    /\ batch # <<>>
    /\ Head(batch).kind = "callback_query"
    /\ LET upd == Head(batch)
       IN  /\ \E in \in CallbackInputs(upd) :
                /\ CallbackDone(handle_callback(Seen(upd), Owner, upd.chat, upd.data,
                                                clock, today, in), in)
                /\ last' = [NoOp EXCEPT !.op = "callback", !.chat = upd.chat,
                                        !.data = upd.data, !.render = in.render,
                                        !.metrics = in.metrics]
           /\ Advance(upd)
    /\ UNCHANGED bootstrapped
    /\ UNCHANGED <<runtime, files>>

StartInputs(upd) ==
    IF upd.chat # Owner THEN Inputs({"s1"}, {EmptyDict}, {""})
    ELSE Inputs({"d1", "d2", "d3", "s1", "s2", "s3"}, MainMetrics, Renderings)

\* the loop body for a message whose text starts with /start
HandleStart ==
    /\ pc = "loop"
    /\ batch # <<>>
    /\ Head(batch).kind = "message"
    /\ Head(batch).data = "/start"
    /\ LET upd == Head(batch)
       IN  /\ \E in \in StartInputs(upd) :
                /\ Apply(handle_start(Seen(upd), Owner, upd.chat, today, in))
                /\ Recorded(IF upd.chat = Owner THEN in.metrics ELSE EmptyDict)
                /\ bootstrapped' = (bootstrapped \/ OkSends(calls') = 3)
                /\ last' = [NoOp EXCEPT !.op = "message", !.chat = upd.chat,
                                        !.data = upd.data, !.render = in.render,
                                        !.metrics = in.metrics]
           /\ Advance(upd)
    /\ batch' = Tail(batch)
    /\ UNCHANGED <<runtime, files>>

\* the loop body for a message whose text does not start with /start
HandleOther ==
    /\ pc = "loop"
    /\ batch # <<>>
    /\ Head(batch).kind = "message"
    /\ Head(batch).data # "/start"
    /\ LET upd == Head(batch)
       IN  /\ Apply(Seen(upd))
           /\ last' = [NoOp EXCEPT !.op = upd.kind, !.chat = upd.chat, !.data = upd.data]
           /\ Advance(upd)
    /\ batch' = Tail(batch)
    /\ UNCHANGED <<bootstrapped, appended, steps>>
    /\ UNCHANGED <<runtime, files>>

\* the button presses and messages of this specification
OwnerTokens == {"cmd_configs", "stop_conduit_confirm"}

Events ==
    [kind : {"callback_query"}, chat : {OwnerChat}, data : OwnerTokens]
    \cup [kind : {"callback_query"}, chat : {StrangerChat},
          data : {"stop_conduit_confirm"}]
    \cup [kind : {"message"}, chat : Chats, data : {"/start"}]
    \cup [kind : {"message"}, chat : {StrangerChat}, data : {"hello"}]

\* somebody presses a button or writes to the bot: Telegram queues an update
DeliverFrom(events) ==
    /\ next_update_id <= MaxUpdates
    /\ \E ev \in events :
        inbox' = Append(inbox, [update_id |-> next_update_id, kind |-> ev.kind,
                                chat |-> ev.chat, data |-> ev.data])
    /\ next_update_id' = next_update_id + 1
    /\ calls' = <<>>
    /\ last' = NoOp
    /\ UNCHANGED <<budget, handled>>
    /\ UNCHANGED <<state, disk, pc, offset, last_dashboard_ts, clock, today, tg, batch,
                   conduit_env, bootstrapped, prev, appended, steps>>
    /\ UNCHANGED <<runtime, files>>

Deliver == DeliverFrom(Events)

\* the owner deletes a message of the chat
ExternalDelete ==
    /\ budget < MaxDisturb
    /\ budget' = budget + 1
    /\ \E id \in 1..Len(tg) :
        /\ tg[id].live
        /\ tg' = [tg EXCEPT ![id] = Gone]
    /\ calls' = <<>>
    /\ last' = NoOp
    /\ UNCHANGED <<state, disk, pc, offset, last_dashboard_ts, clock, today, inbox, batch,
                   next_update_id, conduit_env, bootstrapped, handled, prev, appended,
                   steps>>
    /\ UNCHANGED <<runtime, files>>

\* a refresh interval passes between two iterations
Elapse ==
    /\ pc = "loop"
    /\ batch = <<>>
    /\ clock < Epoch + MaxElapse * update_interval
    /\ clock' = clock + update_interval
    /\ calls' = <<>>
    /\ last' = NoOp
    /\ UNCHANGED <<budget, handled>>
    /\ UNCHANGED <<state, disk, pc, offset, last_dashboard_ts, today, tg, inbox, batch,
                   next_update_id, conduit_env, bootstrapped, prev, appended, steps>>
    /\ UNCHANGED <<runtime, files>>

Next ==
    \/ Startup
    \/ Refresh
    \/ Poll
    \/ HandleCallback
    \/ HandleStart
    \/ HandleOther
    \/ Deliver
    \/ ExternalDelete
    \/ Elapse

Spec == Init /\ [][Next]_vars

-----------------------------------------------------------------------------
(* SpecCrash: the bot killed and started again, between two handlers or inside the
   owner's /start just before its save *)

\* the process is killed while it handles the owner's /start, after the sends of
\* ensure_chat_messages and before save_state: Telegram keeps what was done, the
\* state document in memory is lost
KillBeforeSave ==
    /\ pc = "loop"
    /\ batch # <<>>
    /\ Head(batch).kind = "message"
    /\ Head(batch).data = "/start"
    /\ Head(batch).chat = Owner
    /\ budget < MaxDisturb
    /\ \E in \in Inputs({}, {EmptyDict}, Renderings) :
        KilledIn(start_ui(Seen(Head(batch)), Owner, today, in))
    /\ handled' = [handled EXCEPT !.sent = @ \cup {Head(batch).update_id}]
    /\ pc' = "boot"
    /\ offset' = 0
    /\ batch' = <<>>
    /\ last' = [NoOp EXCEPT !.op = "killed", !.chat = Owner, !.data = "/start"]
    /\ UNCHANGED <<clock, today, inbox, next_update_id, bootstrapped, prev, appended,
                   steps>>
    /\ UNCHANGED <<runtime, files>>

CrashEvents ==
    [kind : {"callback_query"}, chat : {OwnerChat}, data : {"cmd_stop_conduit"}]
    \cup [kind : {"message"}, chat : Chats, data : {"/start"}]

DeliverCrash == DeliverFrom(CrashEvents)

NextCrash ==
    \/ Startup
    \/ Restart
    \/ KillBeforeSave
    \/ Refresh
    \/ Poll
    \/ HandleCallback
    \/ HandleStart
    \/ DeliverCrash

SpecCrash == Init /\ [][NextCrash]_vars

-----------------------------------------------------------------------------
(* SpecButtons: the owner presses the buttons of the command desk, every token of the
   keyboards and one the bot does not know *)

AllTokens ==
    (DOMAIN DeskTokens) \cup (DOMAIN SetClientsTokens) \cup (DOMAIN SetBwTokens)
    \cup {"cmd_status", "restart_conduit_confirm", "stop_conduit_confirm",
          "update_confirm", "reboot_confirm", "reboot_cancel", "noop"}

ButtonEvents == [kind : {"callback_query"}, chat : {OwnerChat}, data : AllTokens]

DeliverButtons == DeliverFrom(ButtonEvents)

NextButtons ==
    \/ Startup
    \/ Refresh
    \/ Poll
    \/ HandleCallback
    \/ DeliverButtons
    \/ ExternalDelete

SpecButtons == Init /\ [][NextButtons]_vars

-----------------------------------------------------------------------------
(* SpecStatus: the owner presses the status button again and again while the clock
   moves in steps of ten seconds *)

StatusEvents == [kind : {"callback_query"}, chat : {OwnerChat}, data : {"cmd_status"}]

DeliverStatus == DeliverFrom(StatusEvents)

\* ten seconds pass between two iterations: the next iteration reads a later now
Tick ==
    /\ pc = "loop"
    /\ batch = <<>>
    /\ clock < Epoch + MaxTicks
    /\ clock' = clock + 1
    /\ calls' = <<>>
    /\ last' = NoOp
    /\ UNCHANGED <<budget, handled>>
    /\ UNCHANGED <<state, disk, pc, offset, last_dashboard_ts, today, tg, inbox, batch,
                   next_update_id, conduit_env, bootstrapped, prev, appended, steps>>
    /\ UNCHANGED <<runtime, files>>

NextStatus ==
    \/ Startup
    \/ Refresh
    \/ Poll
    \/ HandleCallback
    \/ DeliverStatus
    \/ Tick

SpecStatus == Init /\ [][NextStatus]_vars

-----------------------------------------------------------------------------
(* SpecMain: main() as the supervisor of _main_loop: launches with settings missing,
   exceptions, the 30 second back-off and KeyboardInterrupt *)

\* time.sleep(30) of main(), in units of 10 seconds
backoff_sec == 3

\* the installations the process may be launched in: bot_runtime.conf complete or
\* lacking one required setting, bot_state.json with or without owner_chat_id
InitMain ==
    /\ runtime \in {required} \cup {required \ {k} : k \in required}
    /\ state \in {InstalledState, [InstalledState EXCEPT !.owner_chat_id = NoOwner]}
    /\ disk = state
    /\ files = [json |-> File(state, Chunks), tmp |-> Absent]
    /\ pc = "boot"
    /\ offset = 0
    /\ last_dashboard_ts = 0
    /\ clock = Epoch
    /\ today = 1
    /\ tg = <<>>
    /\ inbox = <<>>
    /\ batch = <<>>
    /\ next_update_id = 1
    /\ conduit_env = EmptyDict
    /\ calls = <<>>
    /\ bootstrapped = FALSE
    /\ budget = 0
    /\ handled = [done |-> {}, sent |-> {}]
    /\ last = NoOp
    /\ prev = InstalledState
    /\ appended = NoSamples
    /\ steps = 0

\* what a new call of _main_loop starts from: the state loaded from disk, the locals
\* at their initial values
Reentered ==
    /\ state' = disk
    /\ offset' = 0
    /\ last_dashboard_ts' = 0
    /\ batch' = <<>>
    /\ calls' = <<>>
    /\ UNCHANGED <<disk, today, tg, inbox, next_update_id, conduit_env, bootstrapped,
                   budget, handled, prev, appended, steps, runtime, files>>

\* _main_loop raises RuntimeError before its loop: main() prints the traceback and
\* goes to sleep
StartupFails ==
    /\ pc = "boot"
    /\ ~Launchable
    /\ pc' = "backoff"
    /\ calls' = <<>>
    /\ last' = [NoOp EXCEPT !.op = "startup failed"]
    /\ UNCHANGED <<state, disk, offset, last_dashboard_ts, clock, today, tg, inbox, batch,
                   next_update_id, conduit_env, bootstrapped, budget, handled, prev,
                   appended, steps, runtime, files>>

\* the sleep of main() ends and its while loop calls _main_loop again
Retry ==
    /\ pc = "backoff"
    /\ clock < Epoch + MaxElapse * update_interval
    /\ clock' = clock + backoff_sec
    /\ pc' = "boot"
    /\ last' = [NoOp EXCEPT !.op = "retry"]
    /\ Reentered

\* the administrator completes bot_runtime.conf while the bot is backing off
Provision ==
    /\ pc = "backoff"
    /\ runtime # required
    /\ runtime' = required
    /\ calls' = <<>>
    /\ last' = NoOp
    /\ UNCHANGED <<state, disk, pc, offset, last_dashboard_ts, clock, today, tg, inbox,
                   batch, next_update_id, conduit_env, bootstrapped, budget, handled,
                   prev, appended, steps, files>>

\* KeyboardInterrupt raised in the try body of an iteration: the except clause of the
\* loop breaks out of it, _main_loop returns, and the while loop of main() calls
\* _main_loop again
InterruptInLoop ==
    /\ pc = "loop"
    /\ budget < MaxDisturb
    /\ pc' = "boot"
    /\ last' = [NoOp EXCEPT !.op = "interrupt"]
    /\ state' = disk
    /\ offset' = 0
    /\ last_dashboard_ts' = 0
    /\ batch' = <<>>
    /\ calls' = <<>>
    /\ budget' = budget + 1
    /\ UNCHANGED <<disk, clock, today, tg, inbox, next_update_id, conduit_env,
                   bootstrapped, handled, prev, appended, steps, runtime, files>>

\* KeyboardInterrupt raised outside that try body: before the loop of _main_loop
\* (caught by main(), which breaks), in the sleep of main() or in the sleep that
\* follows an exception caught in an iteration (caught nowhere)
InterruptElsewhere ==
    /\ \/ pc \in {"boot", "backoff"}
       \/ pc = "loop" /\ last.op = "callback" /\ last.data = "reboot_cancel"
    /\ pc' = "exited"
    /\ calls' = <<>>
    /\ last' = [NoOp EXCEPT !.op = "interrupt"]
    /\ UNCHANGED <<state, disk, offset, last_dashboard_ts, clock, today, tg, inbox, batch,
                   next_update_id, conduit_env, bootstrapped, budget, handled, prev,
                   appended, steps, runtime, files>>

MainEvents ==
    [kind : {"callback_query"}, chat : {OwnerChat}, data : {"cmd_reboot", "reboot_cancel"}]

DeliverMain == DeliverFrom(MainEvents)

NextMain ==
    \/ Startup
    \/ StartupFails
    \/ Retry
    \/ Provision
    \/ InterruptInLoop
    \/ InterruptElsewhere
    \/ Refresh
    \/ Poll
    \/ HandleCallback
    \/ DeliverMain

SpecMain == InitMain /\ [][NextMain]_vars

-----------------------------------------------------------------------------
(* SpecSave: save_state step by step, with the process killed at any point *)

\* json.load of a file: the document when all of it is there, otherwise {} (a file
\* that does not exist or does not parse)
load_state(file) == IF file.written = Chunks THEN file.doc ELSE EmptyDict

tmp_in_place(path) == path

\* tmp = path + ".tmp"
tmp_of(path) == "tmp"

\* open(name, "w"): the file is created or truncated
open_w(fs, name, doc) == [fs EXCEPT ![name] = File(doc, 0)]

\* one chunk of json.dump reaches the file
write_chunk(fs, name) == [fs EXCEPT ![name].written = @ + 1]

\* os.replace(src, dst): dst becomes the file src was, in one step
os_replace(fs, src, dst) ==
    IF src = dst THEN fs ELSE [fs EXCEPT ![dst] = fs[src], ![src] = Absent]

\* what the steps of SpecSave leave alone
saveFrame ==
    /\ calls' = <<>>
    /\ UNCHANGED <<offset, last_dashboard_ts, clock, today, tg, inbox, batch,
                   next_update_id, conduit_env, bootstrapped, budget, handled, prev,
                   appended, steps, runtime>>

\* a handler changes the state document in memory
Mutate ==
    /\ pc = "loop"
    /\ \E id \in 1..MaxUpdates, day \in 1..MaxDays :
        state' = [state EXCEPT !.last_update_id = id, !.last_day_utc = day]
    /\ last' = [NoOp EXCEPT !.op = "mutate"]
    /\ UNCHANGED <<pc, disk, files>>
    /\ saveFrame

\* save_state opens the temporary file
SaveOpen ==
    /\ pc = "loop"
    /\ pc' = "saving"
    /\ files' = open_w(files, tmp_of("json"), state)
    /\ disk' = load_state(files'.json)
    /\ last' = [NoOp EXCEPT !.op = "open"]
    /\ UNCHANGED state
    /\ saveFrame

\* json.dump writes the next chunk of the document
SaveWrite ==
    /\ pc = "saving"
    /\ files[tmp_of("json")].written < Chunks
    /\ files' = write_chunk(files, tmp_of("json"))
    /\ disk' = load_state(files'.json)
    /\ last' = [NoOp EXCEPT !.op = "write"]
    /\ UNCHANGED <<pc, state>>
    /\ saveFrame

\* the file is closed and renamed over bot_state.json
SaveReplace ==
    /\ pc = "saving"
    /\ files[tmp_of("json")].written = Chunks
    /\ files' = os_replace(files, tmp_of("json"), "json")
    /\ disk' = load_state(files'.json)
    /\ pc' = "loop"
    /\ last' = [NoOp EXCEPT !.op = "replace"]
    /\ UNCHANGED state
    /\ saveFrame

\* the process is killed, between two saves or inside one
Crash ==
    /\ pc \in {"loop", "saving"}
    /\ pc' = "boot"
    /\ last' = [NoOp EXCEPT !.op = (IF pc = "saving" THEN "killed" ELSE "restart")]
    /\ UNCHANGED <<state, disk, files>>
    /\ saveFrame

\* the next process loads the state document
LoadState ==
    /\ pc = "boot"
    /\ state' = load_state(files.json)
    /\ pc' = "loop"
    /\ last' = [NoOp EXCEPT !.op = "load"]
    /\ UNCHANGED <<disk, files>>
    /\ saveFrame

NextSave ==
    \/ LoadState
    \/ Mutate
    \/ SaveOpen
    \/ SaveWrite
    \/ SaveReplace
    \/ Crash

SpecSave == Init /\ [][NextSave]_vars

-----------------------------------------------------------------------------
(* SpecReplace: the update procedure and the reboot take the process away while the
   handler that started them is still inside its os.system call *)

\* what is left when the process ends inside the last call of a branch that reached
\* world w: the calls were made, the document on disk is the one the branch last
\* saved, and the next process loads it
ReplacedIn(w) ==
    /\ budget + 1 + Faults(w.calls) <= MaxDisturb
    /\ budget' = budget + 1 + Faults(w.calls)
    /\ state' = w.dk
    /\ disk' = w.dk
    /\ tg' = w.tg
    /\ conduit_env' = w.env
    /\ calls' = w.calls
    /\ last_dashboard_ts' = 0

\* update.sh reinstalls and restarts the bot, reboot takes the machine down: the
\* process is gone before os.system returns
KilledInSystem ==
    /\ pc = "loop"
    /\ batch # <<>>
    /\ Head(batch).kind = "callback_query"
    /\ Head(batch).chat = Owner
    /\ Head(batch).data \in {"update_confirm", "reboot_confirm"}
    /\ LET upd == Head(batch)
       IN  /\ \E in \in CallbackInputs(upd) :
                ReplacedIn(dispatch(Seen(upd), upd.chat, upd.data, clock, today, in))
           /\ handled' = [handled EXCEPT !.sent = @ \cup {upd.update_id}]
           /\ last' = [NoOp EXCEPT !.op = "killed", !.chat = upd.chat, !.data = upd.data]
    /\ pc' = "boot"
    /\ offset' = 0
    /\ batch' = <<>>
    /\ UNCHANGED <<clock, today, inbox, next_update_id, bootstrapped, prev, appended,
                   steps>>
    /\ UNCHANGED <<runtime, files>>

ReplaceEvents ==
    [kind : {"callback_query"}, chat : {OwnerChat},
     data : {"cmd_update", "update_confirm", "cmd_reboot", "reboot_confirm"}]

DeliverReplace == DeliverFrom(ReplaceEvents)

NextReplace ==
    \/ Startup
    \/ Refresh
    \/ Poll
    \/ HandleCallback
    \/ KilledInSystem
    \/ DeliverReplace

SpecReplace == Init /\ [][NextReplace]_vars

-----------------------------------------------------------------------------
(* SpecStarve: the iterations of the loop when the save of the refresh pass raises,
   with the steps of the process taken fairly *)

\* the state directory refuses writes (disk full, read-only): open(tmp, "w") or
\* json.dump raises OSError
Unwritable == [doc |-> EmptyDict, written |-> -2]

Writable == files.tmp # Unwritable

\* the state directory stops taking writes, and stays so
StateDirFails ==
    /\ pc = "loop"
    /\ Writable
    /\ files' = [files EXCEPT !.tmp = Unwritable]
    /\ calls' = <<>>
    /\ last' = [NoOp EXCEPT !.op = "state dir fails"]
    /\ UNCHANGED <<state, disk, pc, offset, last_dashboard_ts, clock, today, tg, inbox,
                   batch, next_update_id, conduit_env, bootstrapped, budget, handled,
                   prev, appended, steps, runtime>>

\* an iteration whose refresh pass raises in save_state: the sample and the edits
\* were made, nothing is written, last_dashboard_ts keeps its value, and the
\* exception leaves the try body before get_updates: the handler of the loop prints
\* it and sleeps
RefreshRaises ==
    /\ pc = "loop"
    /\ batch = <<>>
    /\ Due
    /\ ~Writable
    /\ \E in \in Inputs({"e1", "s1", "e2", "s2"}, MainMetrics, Renderings) :
        /\ budget + Faults(refresh(World(state), Owner, clock, today, in).calls)
              <= MaxDisturb
        /\ budget' = budget
                       + Faults(refresh(World(state), Owner, clock, today, in).calls)
        /\ state' = refresh(World(state), Owner, clock, today, in).st
        /\ tg' = refresh(World(state), Owner, clock, today, in).tg
        /\ calls' = refresh(World(state), Owner, clock, today, in).calls
        /\ Recorded(in.metrics)
        /\ last' = [NoOp EXCEPT !.op = "refresh raised", !.render = in.render,
                                !.metrics = in.metrics]
    /\ UNCHANGED <<disk, conduit_env, last_dashboard_ts>>
    /\ UNCHANGED <<pc, offset, clock, today, inbox, batch, next_update_id, bootstrapped,
                   handled, prev>>
    /\ UNCHANGED <<runtime, files>>

\* the steps that save, while the state directory takes writes
RefreshSaved == Writable /\ Refresh

CallbackSaved == Writable /\ HandleCallback

\* the loop body for an owner's button press when the save that ends it raises: the
\* calls of the branch were made, offset has moved past the update, nothing is
\* written and the exception ends the for loop over the batch
CallbackUnsaved ==
    /\ ~Writable
    /\ pc = "loop"
    /\ batch # <<>>
    /\ Head(batch).kind = "callback_query"
    /\ Head(batch).chat = Owner
    /\ LET upd == Head(batch)
       IN  /\ \E in \in CallbackInputs(upd) :
                /\ budget + Faults(dispatch(Seen(upd), upd.chat, upd.data, clock, today,
                                            in).calls) <= MaxDisturb
                /\ budget' = budget + Faults(dispatch(Seen(upd), upd.chat, upd.data, clock,
                                                      today, in).calls)
                /\ state' = dispatch(Seen(upd), upd.chat, upd.data, clock, today, in).st
                /\ tg' = dispatch(Seen(upd), upd.chat, upd.data, clock, today, in).tg
                /\ calls' = dispatch(Seen(upd), upd.chat, upd.data, clock, today, in).calls
                /\ last' = [NoOp EXCEPT !.op = "callback", !.chat = upd.chat,
                                        !.data = upd.data, !.render = in.render,
                                        !.metrics = in.metrics]
           /\ Advance(upd)
    /\ batch' = <<>>
    /\ UNCHANGED <<disk, conduit_env, last_dashboard_ts, bootstrapped, appended, steps>>
    /\ UNCHANGED <<runtime, files>>

StarveEvents ==
    [kind : {"callback_query"}, chat : {OwnerChat}, data : {"cmd_configs", "back_main"}]

DeliverStarve == DeliverFrom(StarveEvents)

\* the steps the process takes by itself
Iteration ==
    \/ Startup
    \/ RefreshSaved
    \/ RefreshRaises
    \/ Poll
    \/ CallbackSaved
    \/ CallbackUnsaved

NextStarve ==
    \/ Iteration
    \/ Elapse
    \/ StateDirFails
    \/ DeliverStarve

SpecStarve == Init /\ [][NextStarve]_vars /\ WF_vars(Iteration)

-----------------------------------------------------------------------------
(* Properties of Spec: the three-message UI and the access gate *)

SlotId(st, slot) == Get(IdsOf(st, slot), Owner, 0)

LiveMessages == {i \in 1..Len(tg) : tg[i].live}

\* exactly three live messages, one per slot, each the one its slot's stored id names
ThreeLive ==
    /\ Cardinality(LiveMessages) = 3
    /\ \A slot \in Slots :
        /\ IsLive(tg, SlotId(state, slot))
        /\ tg[SlotId(state, slot)].kind = slot

Count(cs, P(_)) == Cardinality({i \in 1..Len(cs) : P(cs[i])})

IsSend(c) == c.m \in {"sendPhoto", "sendMessage"} /\ c.arg \in Slots

IsEdit(c) == c.m \in {"editMessageMedia", "editMessageText"}

IsRejection(c) == c.m \in {"answerCallbackQuery", "sendMessage"} /\ c.arg = NOT_AUTHORIZED

\* C1: once an owner's /start has made its three sends, the owner's chat holds exactly
\* three live UI messages, one per slot and each referenced by its slot's stored id;
\* stated here for the state right after such a /start.
C1_ThreeLiveAfterStart ==
    (/\ last.op = "message"
     /\ last.chat = Owner
     /\ last.data = "/start"
     /\ OkSends(calls) = 3) => ThreeLive

\* an update from a chat other than the owner's is at the head of the batch and the
\* step is its loop body
NonOwnerStep ==
    /\ pc = "loop"
    /\ batch # <<>>
    /\ Head(batch).chat # Owner
    /\ batch' # batch

\* the one call a rejected update makes
RejectionOf(upd, cs) ==
    /\ Len(cs) = 1
    /\ IsRejection(cs[1])
    /\ cs[1].m = (IF upd.kind = "callback_query" THEN "answerCallbackQuery" ELSE "sendMessage")

\* C2 as stated: handling any event (button press or message) from a chat other than
\* the owner's leaves the persisted state document unchanged and emits exactly one
\* rejection acknowledgment.
C2_AlwaysOneRejection ==
    [][NonOwnerStep => /\ disk' = disk
                       /\ RejectionOf(Head(batch), calls')]_vars

\* C2, amended: handling an event from a chat other than the owner's never writes the
\* persisted state document; a button press or a message whose text starts with /start
\* makes exactly one rejection call (a callback answer, respectively a plain reply,
\* whose failure is ignored) and any other message makes no call at all.
C2_RejectionOrSilence ==
    [][NonOwnerStep =>
        /\ disk' = disk
        /\ IF Head(batch).kind = "callback_query" \/ Head(batch).data = "/start"
           THEN RejectionOf(Head(batch), calls')
           ELSE calls' = <<>>]_vars

\* a stranger's button press was answered with the rejection after the owner had set
\* up the UI, and the file on disk was not written: it still lacks the update's id
C2_Witness ==
    /\ last.op = "callback"
    /\ last.chat = StrangerChat
    /\ bootstrapped
    /\ Len(calls) = 1
    /\ calls[1].m = "answerCallbackQuery"
    /\ calls[1].arg = NOT_AUTHORIZED
    /\ disk.last_update_id # state.last_update_id

\* C3 as stated: while handling an event from a chat other than the owner's the bot
\* makes no UI send, edit or delete, no config write and no service command, and apart
\* from the rejection acknowledgment it behaves as if the event never happened.
C3_AsIfNeverHappened ==
    [][NonOwnerStep =>
        /\ Count(calls', LAMBDA c : ~IsRejection(c)) = 0
        /\ UNCHANGED <<state, disk, tg, conduit_env, offset, last_dashboard_ts>>]_vars

\* C3, amended: while handling an event from a chat other than the owner's the bot
\* makes no call other than the rejection (no UI send, edit or delete, no config
\* write, no service command) and changes neither the chat, the config file, the file
\* on disk nor the refresh timer; what it does change is the update cursor: offset
\* moves past the update and last_update_id of the in-memory document becomes the
\* update's id.
C3_OnlyCursorMoves ==
    [][NonOwnerStep =>
        /\ Count(calls', LAMBDA c : ~IsRejection(c)) = 0
        /\ UNCHANGED <<disk, tg, conduit_env, last_dashboard_ts>>
        /\ state' = [state EXCEPT !.last_update_id = Head(batch).update_id]
        /\ offset' = Max(offset, Head(batch).update_id + 1)]_vars

\* a stranger's /start was rejected while the owner's three messages stood untouched
C3_Witness ==
    /\ last.op = "message"
    /\ last.chat = StrangerChat
    /\ last.data = "/start"
    /\ ThreeLive
    /\ Len(calls) = 1
    /\ calls[1].m = "sendMessage"
    /\ calls[1].arg = NOT_AUTHORIZED
    /\ state.last_update_id = offset - 1

\* the step is the loop body for an owner's /start
OwnerStartStep ==
    /\ pc = "loop"
    /\ batch # <<>>
    /\ Head(batch).kind = "message"
    /\ Head(batch).data = "/start"
    /\ Head(batch).chat = Owner
    /\ batch' # batch

\* a dict of message ids holds at most the owner's entry, and that entry is an id
OneId(d) == DOMAIN d \subseteq {Owner} /\ \A k \in DOMAIN d : d[k] \in 1..MaxMsg

\* C8: each slot holds at most one stored id, and a slot id that is set stays set (it
\* may be replaced by another id, never removed or nulled) across startup, periodic
\* refresh and button handling; only an owner's /start clears ids.
C8_IdsKept ==
    [][ /\ OneId(state'.dashboard_message_ids)
        /\ OneId(state'.status_message_ids)
        /\ OneId(state'.command_message_ids)
        /\ ~OwnerStartStep =>
             \A slot \in Slots : SlotId(state, slot) # 0 => SlotId(state', slot) # 0 ]_vars

\* a periodic refresh found the dashboard image gone and stored the id of the image it
\* sent in its place, the other two ids still set
C8_Witness ==
    /\ last.op = "refresh"
    /\ \E i \in 1..Len(calls) :
        /\ calls[i].m = "sendPhoto"
        /\ calls[i].arg = "dashboard"
        /\ calls[i].res = "ok"
    /\ SlotId(state, "dashboard") = Len(tg)
    /\ SlotId(state, "status") # 0
    /\ SlotId(state, "command") # 0

\* the step runs update_dashboard_for_chat: a periodic refresh, or the owner's
\* stop_conduit_confirm
DashboardStep ==
    /\ pc = "loop"
    /\ \/ last'.op = "refresh"
       \/ last'.op = "callback" /\ last'.chat = Owner /\ last'.data = "stop_conduit_confirm"

\* all three ids are stored, and the dashboard image and the status text are live and
\* already show rendering r
Shows(r) ==
    /\ \A slot \in Slots : SlotId(state, slot) # 0
    /\ \A slot \in {"dashboard", "status"} :
        /\ IsLive(tg, SlotId(state, slot))
        /\ tg[SlotId(state, slot)].content = r

\* C9: update_dashboard_for_chat called with the status text and image that the
\* complete triad already shows (a second call in a row with identical content) sends
\* no new message, changes no message and leaves the stored ids as they were; both
\* edits are turned down as unmodified, unless they did not reach Telegram.
C9_SecondCallSendsNothing ==
    [][ (DashboardStep /\ Shows(last'.render)) =>
          /\ Count(calls', LAMBDA c : IsSend(c) /\ c.arg \in {"dashboard", "status"}) = 0
          /\ SlotId(state', "dashboard") = SlotId(state, "dashboard")
          /\ SlotId(state', "status") = SlotId(state, "status")
          /\ last'.op = "refresh" => SlotId(state', "command") = SlotId(state, "command")
          /\ \A slot \in {"dashboard", "status"} :
                tg'[SlotId(state, slot)] = tg[SlotId(state, slot)]
          /\ \A i \in 1..Len(calls') :
                (IsEdit(calls'[i]) /\ calls'[i].arg \in {"dashboard", "status"}) =>
                    calls'[i].res \in {"message is not modified",
                                       "http error 400: bad request", "network error"}
      ]_vars

\* a periodic refresh rendered what both messages already showed, and Telegram
\* answered each of its two edits 'message is not modified'
C9_Witness ==
    /\ last.op = "refresh"
    /\ last.twice
    /\ Len(calls) = 2
    /\ calls[1] = [m |-> "editMessageMedia", arg |-> "dashboard",
                   res |-> "message is not modified"]
    /\ calls[2] = [m |-> "editMessageText", arg |-> "status",
                   res |-> "message is not modified"]

\* the message that slot's stored id names is gone, and the step's edit of that slot
\* reached Telegram
EditOfMissing(slot) ==
    /\ SlotId(state, slot) # 0
    /\ ~IsLive(tg, SlotId(state, slot))
    /\ \E i \in 1..Len(calls') :
        /\ IsEdit(calls'[i])
        /\ calls'[i].arg = slot
        /\ calls'[i].res # "network error"

\* C10: when the message a stored slot id names has been deleted externally, the next
\* update_dashboard_for_chat / edit_command_desk call sends one new message for that
\* slot and, the send succeeding, stores the new message's id in that slot, leaving
\* the ids of the slots whose messages are live as they were.
C10_ReplacedWhenMissing ==
    [][ \A slot \in Slots :
          EditOfMissing(slot) =>
            /\ Count(calls', LAMBDA c : IsSend(c) /\ c.arg = slot) = 1
            /\ Count(calls', LAMBDA c : IsSend(c) /\ c.arg = slot /\ c.res = "ok") = 1 =>
                 /\ SlotId(state', slot) # SlotId(state, slot)
                 /\ IsLive(tg', SlotId(state', slot))
                 /\ tg'[SlotId(state', slot)].kind = slot
                 /\ \A other \in Slots \ {slot} :
                      IsLive(tg, SlotId(state, other)) =>
                          SlotId(state', other) = SlotId(state, other)
      ]_vars

\* the calls of a step that concern the dashboard image or the status text
OnTriadTop(c) == c.arg \in {"dashboard", "status"}

\* what update_dashboard_for_chat does when it returns at once: in a refresh, which
\* makes no other call, no call at all and no id changed; in the owner's
\* stop_conduit_confirm no call for the dashboard or the status message, their ids kept
ReturnsAtOnce ==
    /\ Count(calls', OnTriadTop) = 0
    /\ SlotId(state', "dashboard") = SlotId(state, "dashboard")
    /\ SlotId(state', "status") = SlotId(state, "status")
    /\ last'.op = "refresh" =>
          /\ calls' = <<>>
          /\ SlotId(state', "command") = SlotId(state, "command")

\* C15 as stated: if any of the three slot ids (dashboard, status, command) of the
\* owner's triad is unset, update_dashboard_for_chat issues no outbound API call and
\* changes no stored id.
C15_NoCallIfAnyUnset ==
    [][ (DashboardStep /\ \E slot \in Slots : SlotId(state, slot) = 0) =>
            ReturnsAtOnce ]_vars

\* C15, amended: if the dashboard id or the status id is unset,
\* update_dashboard_for_chat issues no outbound API call and changes no stored id; the
\* command id is not consulted: with the other two ids set it makes its two edits
\* whether or not the command id is set.
C15_NoCallIfTopUnset ==
    [][ DashboardStep =>
          IF SlotId(state, "dashboard") = 0 \/ SlotId(state, "status") = 0
          THEN ReturnsAtOnce
          ELSE Count(calls', LAMBDA c : IsEdit(c) /\ OnTriadTop(c)) = 2 ]_vars

\* a refresh ran on a triad whose dashboard image is stored and whose status text is
\* not (its send failed in /start), and made no call
C15_Witness ==
    /\ last.op = "refresh"
    /\ SlotId(state, "dashboard") # 0
    /\ SlotId(state, "status") = 0
    /\ calls = <<>>

\* C16: as long as the owner has never sent /start, no UI message is created and no
\* slot id is stored, by startup, periodic refresh or button handling; stated here for
\* the runs in which nobody has sent the bot anything yet.
C16_NothingBeforeStart ==
    next_update_id = 1 =>
        /\ tg = <<>>
        /\ \A slot \in Slots : SlotId(state, slot) = 0 /\ SlotId(disk, slot) = 0

\* C17: after the owner's /start handler has run, the only live bot messages in the
\* chat are those whose ids are stored: no message of an earlier bootstrap or
\* self-heal remains live, even when a delete call of the teardown fails.
C17_OnlyStoredLive ==
    [][ OwnerStartStep =>
          \A i \in 1..Len(tg') :
              tg'[i].live => \E slot \in Slots : SlotId(state', slot) = i ]_vars

\* what the aggregation keeps: the counter state, the two history buffers and the
\* daily accumulator
Aggregates(st) ==
    <<st.last_seen_bytes_uploaded, st.last_seen_bytes_downloaded,
      st.lifetime_bytes_uploaded, st.lifetime_bytes_downloaded,
      st.traffic_history, st.lifetime_history,
      st.client_seconds_today, st.last_day_utc>>

\* the step is a periodic refresh, an owner's /start or an owner's
\* stop_conduit_confirm whose fetch_metrics returned the empty dict
FetchFailed ==
    /\ last'.metrics = EmptyDict
    /\ \/ last'.op = "refresh"
       \/ last'.op = "message" /\ last'.data = "/start" /\ last'.chat = Owner
       \/ last'.op = "callback" /\ last'.data = "stop_conduit_confirm"
                                /\ last'.chat = Owner

\* C30: when the metrics fetch fails (no sample) in a periodic refresh, a /start or
\* a stop_conduit_confirm, the last_seen_* and lifetime_* counters, the traffic and
\* lifetime history buffers and the daily accumulator with its day are left as they
\* were, in memory and in the saved document: the failure is not a sample of zeros.
C30_NoSampleNoChange ==
    [][ FetchFailed =>
            /\ Aggregates(state') = Aggregates(state)
            /\ Aggregates(disk') = Aggregates(disk) \/ Aggregates(disk') = Aggregates(state)
      ]_vars

\* after a real sample has set the counters and the histories, the owner confirms
\* the stop, the fetch fails and everything sampled is still there
C30_Witness ==
    /\ last.op = "callback"
    /\ last.data = "stop_conduit_confirm"
    /\ last.chat = Owner
    /\ last.metrics = EmptyDict
    /\ state.last_seen_bytes_uploaded > 0
    /\ state.lifetime_history # <<>>
    /\ state.traffic_history # <<>>
    /\ state.client_seconds_today > 0
    /\ disk = state

\* C31: a failed fetch never overwrites or clears last_good_metrics: after a refresh,
\* a /start or a stop_conduit_confirm whose fetch returned nothing, the cache in
\* memory and in the saved document still holds the last sample that was fetched.
C31_FailedFetchKeepsLastGood ==
    [][ FetchFailed =>
            /\ state'.last_good_metrics = state.last_good_metrics
            /\ disk'.last_good_metrics \in {disk.last_good_metrics, state.last_good_metrics}
      ]_vars

\* C33: the owner identity is fixed: no handler, refresh or save changes
\* owner_chat_id in memory or in the saved document, and every button press and
\* every /start is compared against that one value: it is rejected exactly when it
\* comes from another chat.
C33_OwnerFixed ==
    [][ /\ state'.owner_chat_id = state.owner_chat_id
        /\ disk'.owner_chat_id = state.owner_chat_id
        /\ (pc = "loop" /\ batch # <<>> /\ batch' # batch
            /\ (Head(batch).kind = "callback_query" \/ Head(batch).data = "/start")) =>
              (Count(calls', IsRejection) = 1 <=> Head(batch).chat # OwnerChat)
      ]_vars

\* the owner's button press was handled and saved, then a stranger's press was
\* rejected: the owner is still the chat of the installation, in memory and on disk
C33_Witness ==
    /\ last.op = "callback"
    /\ last.chat = StrangerChat
    /\ Count(calls, IsRejection) = 1
    /\ 1 \in handled.done
    /\ inbox[1].chat = OwnerChat
    /\ state.last_update_id = 2
    /\ state.owner_chat_id = OwnerChat
    /\ disk.owner_chat_id = OwnerChat

\* C36: client_seconds_today grows by connected x 30 at most once per refresh
\* interval of 30 seconds, whatever is handled in between (/start,
\* stop_conduit_confirm): with one client connected in every sample, the accumulator
\* never exceeds 30 seconds for each interval begun since the start of the run.
C36_OncePerInterval ==
    state.client_seconds_today
        <= interval_sec * (((clock - Epoch) \div update_interval) + 1)

\* the edit of the slot's message failed for good in the calls cs: with an error
\* that is neither "not modified" nor a missing target, or with a missing target
\* whose replacement send failed as well
EditFailedFor(cs, slot) ==
    \E i \in 1..Len(cs) :
        /\ IsEdit(cs[i])
        /\ cs[i].arg = slot
        /\ cs[i].res # "ok"
        /\ ~Unchanged(cs[i].res)
        /\ TargetMissing(cs[i].res) =>
              \E j \in (i + 1)..Len(cs) :
                  IsSend(cs[j]) /\ cs[j].arg = slot /\ cs[j].res # "ok"

SentOkFor(cs, slot) ==
    \E i \in 1..Len(cs) : IsSend(cs[i]) /\ cs[i].arg = slot /\ cs[i].res = "ok"

\* C40: when an edit fails as target-missing and the replacement send fails too, or
\* fails with any other error, the stored id of that slot is left as it was and not
\* cleared, and no other slot's id changes unless its own replacement was sent; the
\* ids being kept, the next refresh edits the dashboard and the status message again
\* and the next desk edit edits the command desk again.
C40_FailedEditKeepsId ==
    [][ /\ \A slot \in Slots :
              EditFailedFor(calls', slot) =>
                  /\ SlotId(state, slot) # 0
                  /\ SlotId(state', slot) = SlotId(state, slot)
                  /\ ~SentOkFor(calls', slot)
                  /\ \A other \in Slots :
                        SlotId(state', other) # SlotId(state, other) =>
                            SentOkFor(calls', other)
        /\ (last'.op = "refresh" /\ SlotId(state, "dashboard") # 0
                                 /\ SlotId(state, "status") # 0) =>
              /\ Count(calls', LAMBDA c : c.m = "editMessageMedia"
                                          /\ c.arg = "dashboard") = 1
              /\ Count(calls', LAMBDA c : c.m = "editMessageText" /\ c.arg = "status") = 1
        /\ (last'.op = "callback" /\ last'.chat = Owner
             /\ last'.data \in DOMAIN DeskTokens /\ SlotId(state, "command") # 0) =>
              Count(calls', LAMBDA c : c.m = "editMessageText" /\ c.arg = "command") = 1
      ]_vars

\* a refresh found the dashboard message deleted, the replacement photo could not be
\* sent, and the id of the deleted message is still stored for the next refresh
C40_Witness ==
    /\ last.op = "refresh"
    /\ \E i \in 1..Len(calls) :
          /\ calls[i].m = "editMessageMedia"
          /\ TargetMissing(calls[i].res)
    /\ \E i \in 1..Len(calls) :
          /\ calls[i].m = "sendPhoto"
          /\ calls[i].res = "network error"
    /\ SlotId(state, "dashboard") # 0
    /\ ~IsLive(tg, SlotId(state, "dashboard"))
    /\ SlotId(disk, "dashboard") = SlotId(state, "dashboard")

-----------------------------------------------------------------------------
(* Properties of SpecCrash: restarts, the update cursor and the startup reset *)

\* the step is the loop body for the update at the head of the batch, run to its end
HandleStep == pc = "loop" /\ batch # <<>> /\ pc' = "loop" /\ batch' # batch

IsOutbound(c) == c.m \in {"sendPhoto", "sendMessage"}

\* C11: when an update whose handler had already made all its calls is delivered again
\* after a restart (the offset on disk was stale), handling it the second time sends
\* no message.
C11_NoMessageOnRedelivery ==
    [][ (HandleStep /\ Head(batch).update_id \in handled.sent) =>
            Count(calls', IsOutbound) = 0 ]_vars

\* C13: every handled update (owner press, /start, rejected non-owner event, ignored
\* message, unknown token) is followed by a save of the state with its last_update_id
\* before the next one is handled, so an update that was handled to its end is never
\* handled again after the process is killed and started again.
C13_NoSecondHandling ==
    [][ HandleStep =>
          /\ Head(batch).update_id \notin handled.done
          /\ disk'.last_update_id = Head(batch).update_id ]_vars

\* C14: for every fetched update the loop sets offset to max(offset, update_id + 1),
\* so offset never decreases within a run; a run starts with offset restored to the
\* persisted last_update_id + 1, every fetched update has an id of at least offset,
\* and so no update with an id up to the persisted last_update_id is handled again.
C14_OffsetMonotone ==
    [][ /\ HandleStep =>
              /\ offset' = Max(offset, Head(batch).update_id + 1)
              /\ Head(batch).update_id > disk.last_update_id
        /\ (pc = "loop" /\ pc' = "loop") => offset' >= offset
        /\ (pc = "boot" /\ pc' = "loop") =>
              offset' = (IF disk.last_update_id # 0 THEN disk.last_update_id + 1 ELSE 0)
        /\ pc' = "loop" => \A i \in 1..Len(batch') : batch'[i].update_id >= offset'
      ]_vars

\* a run that follows a kill has restored offset from the id on disk, the id of an
\* update an earlier run handled, and Telegram still holds that update: the next
\* fetch leaves it out
C14_Witness ==
    /\ last.op = "startup"
    /\ disk.last_update_id \in handled.done
    /\ offset = disk.last_update_id + 1
    /\ \E i \in 1..Len(inbox) : inbox[i].update_id = disk.last_update_id

-----------------------------------------------------------------------------
(* Properties of SpecButtons: the confirmation prompts and the acknowledgments *)

\* the step is the loop body for the owner's press of the button with this token
OwnerPress(token) ==
    /\ pc = "loop"
    /\ batch # <<>>
    /\ Head(batch).kind = "callback_query"
    /\ Head(batch).chat = Owner
    /\ Head(batch).data = token
    /\ batch' # batch

\* what the command desk message of the owner's chat shows; "" when there is none
DeskShows(st, chat) ==
    IF IsLive(chat, SlotId(st, "command")) THEN chat[SlotId(st, "command")].content ELSE ""

IsService(c) == c.m = "os.system"

IsStop(c) == c.m = "os.system" /\ c.arg = "systemctl stop conduit"

IsDeskEdit(c) == c.m = "editMessageText" /\ c.arg = "command"

\* the service commands a press made while the desk showed the stop prompt may issue
StopOnlyOnConfirm ==
    /\ OwnerPress("stop_conduit_cancel") => Count(calls', IsService) = 0
    /\ OwnerPress("stop_conduit_confirm") =>
          /\ Count(calls', IsStop) = 1
          /\ Count(calls', IsService) = 1

C20_OneAckPerPress ==
    [][ \A token \in AllTokens :
          OwnerPress(token) =>
              Count(calls', LAMBDA c : c.m = "answerCallbackQuery") = 1 ]_vars

\* C23: an owner's press of reboot_cancel edits the command desk to Main, emits an
\* acknowledgment, triggers no reboot, and lets the remaining updates of the batch be
\* handled in the same iteration.
C23_RebootCancelBackToMain ==
    [][ OwnerPress("reboot_cancel") =>
          /\ Count(calls', LAMBDA c : c.arg = "command") >= 1
          /\ Count(calls', LAMBDA c : c.m = "answerCallbackQuery") = 1
          /\ Count(calls', IsService) = 0
          /\ DeskShows(state, tg) = "ConfirmReboot" =>
                DeskShows(state', tg') \in {CMD_DESK_MAIN_TEXT, "ConfirmReboot"}
          /\ batch' = Tail(batch) ]_vars

\* the set_clients_ and set_bw_ tokens that carry a listed value
AcceptedSetTokens ==
    {t \in DOMAIN SetClientsTokens : SetClientsTokens[t] \in allowed}
    \cup {t \in DOMAIN SetBwTokens : SetBwTokens[t] \in allowed_bw}

\* C24: an owner's press of set_clients_{v} or set_bw_{v} with an allowed value makes
\* one edit_command_desk call to Main, after which the desk shows Main (the call
\* reaching Telegram).
C24_SetReturnsToMain ==
    [][ \A token \in AcceptedSetTokens :
          OwnerPress(token) =>
            /\ Count(calls', LAMBDA c : c.arg = "command") >= 1
            /\ Count(calls', LAMBDA c : c.arg = "command" /\ c.res = "network error") = 0 =>
                  DeskShows(state', tg') = CMD_DESK_MAIN_TEXT ]_vars

IsConfigWrite(c) == c.m = "set_conduit_param"

IsRestart(c) == c.m = "os.system" /\ c.arg = "systemctl restart conduit"

\* the setting a set_ token names, and its value (-1 for a value that is no number)
SetKey(token) == IF token \in DOMAIN SetClientsTokens THEN "MAX_CLIENTS" ELSE "BANDWIDTH"

SetValue(token) ==
    IF token \in DOMAIN SetClientsTokens THEN SetClientsTokens[token] ELSE SetBwTokens[token]

\* C25: MAX_CLIENTS is only ever written with a value in {50,75,100,125,150,200,250,300}
\* and BANDWIDTH only with a value in {5,10,15,20,25,30}; an accepted set_ press
\* writes the value and restarts the relay service exactly once; a set_ token with a
\* value that is not listed or is no number writes nothing and restarts nothing; no
\* other press writes the config.
C25_OnlyListedValues ==
    [][ /\ \A k \in DOMAIN conduit_env' :
              /\ k = "MAX_CLIENTS" => conduit_env'[k] \in {50, 75, 100, 125, 150, 200, 250, 300}
              /\ k = "BANDWIDTH" => conduit_env'[k] \in {5, 10, 15, 20, 25, 30}
        /\ \A token \in AllTokens :
              OwnerPress(token) =>
                IF token \in AcceptedSetTokens
                THEN /\ conduit_env' = Put(conduit_env, SetKey(token), SetValue(token))
                     /\ Count(calls', IsConfigWrite) = 1
                     /\ Count(calls', IsRestart) = 1
                     /\ Count(calls', IsService) = 1
                ELSE /\ conduit_env' = conduit_env
                     /\ Count(calls', IsConfigWrite) = 0
                     /\ token \in (DOMAIN SetClientsTokens) \cup (DOMAIN SetBwTokens) =>
                           Count(calls', IsService) = 0
      ]_vars

\* the owner set the client limit to 100 and then pressed a set_clients_ button with
\* the value 60, which is not listed: the config still holds 100 and no command ran
C25_Witness ==
    /\ last.op = "callback"
    /\ last.data = "set_clients_60"
    /\ Get(conduit_env, "MAX_CLIENTS", 0) = 100
    /\ Len(calls) = 1
    /\ calls[1].m = "answerCallbackQuery"

\* the transition table of the command desk for the navigation and cancel tokens:
\* token -> destination node
NavigationTable ==
    [cmd_configs |-> "Configs",
     cmd_limits |-> "Limits",
     cmd_bandwidth |-> "Bandwidth",
     cmd_restart_conduit |-> "ConfirmRestart",
     cmd_stop_conduit |-> "ConfirmStop",
     cmd_update |-> "ConfirmUpdate",
     cmd_reboot |-> "ConfirmReboot",
     cmd_info |-> "Info",
     back_main |-> "Main",
     back_configs |-> "Configs",
     restart_conduit_cancel |-> "Main",
     stop_conduit_cancel |-> "Main",
     update_cancel |-> "Configs"]

IsDeskSend(c) == c.m = "sendMessage" /\ c.arg = "command"

\* C26: each navigation or cancel token is realised as exactly one edit_command_desk
\* call showing the destination node of the transition table: one edit of the stored
\* desk message (or, with no id stored, one send), a new message being sent only if
\* the edit target is missing; the desk shows the destination once a call of the step
\* succeeded, no other message is touched, and there is no service command and no
\* config write.
C26_NavigationIsOneDeskEdit ==
    [][ \A token \in DOMAIN NavigationTable :
          OwnerPress(token) =>
            /\ Count(calls', IsDeskEdit) = (IF SlotId(state, "command") # 0 THEN 1 ELSE 0)
            /\ Count(calls', IsDeskSend) <= 1
            /\ Count(calls', IsDeskSend) = 1 => ~IsLive(tg, SlotId(state, "command"))
            /\ Count(calls', IsDeskEdit) + Count(calls', IsDeskSend) >= 1
            /\ Len(calls') = Count(calls', IsDeskEdit) + Count(calls', IsDeskSend) + 1
            /\ Count(calls', LAMBDA c : c.arg = "command" /\ c.res = "ok") >= 1 =>
                  DeskShows(state', tg') = NavigationTable[token]
            /\ \A i \in 1..Len(tg) : i # SlotId(state, "command") => tg'[i] = tg[i]
            /\ Count(calls', IsService) = 0
            /\ Count(calls', IsConfigWrite) = 0
            /\ conduit_env' = conduit_env ]_vars

\* the owner opened the update prompt and cancelled it: one edit, and the desk shows
\* Configs
C26_Witness ==
    /\ last.op = "callback"
    /\ last.data = "update_cancel"
    /\ Len(inbox) = 2
    /\ inbox[1].data = "cmd_update"
    /\ Len(calls) = 2
    /\ IsDeskEdit(calls[1])
    /\ calls[1].res = "ok"
    /\ DeskShows(state, tg) = "Configs"

\* C27: an owner's press of a button whose token is not in the transition table is
\* answered with one empty acknowledgment and causes no command desk edit, no
\* message send, no config write and no service command: the chat, the config and
\* the message ids stay as they were.
C27_UnknownTokenOnlyAcked ==
    [][ \A token \in AllTokens \ UNION {DOMAIN DeskTokens, DOMAIN SetClientsTokens,
                                        DOMAIN SetBwTokens,
                                        {"cmd_status", "restart_conduit_confirm",
                                         "stop_conduit_confirm", "update_confirm",
                                         "reboot_confirm", "reboot_cancel"}} :
          OwnerPress(token) =>
            /\ calls' = <<[m |-> "answerCallbackQuery", arg |-> "", res |-> "ok"]>>
            /\ tg' = tg
            /\ conduit_env' = conduit_env
            /\ state' = [state EXCEPT !.last_update_id = Head(batch).update_id]
            /\ disk' = state'
            /\ batch' = Tail(batch) ]_vars

\* the owner pressed a button with an unknown token while the desk showed Configs:
\* the press was acknowledged and the desk still shows Configs
C27_Witness ==
    /\ last.op = "callback"
    /\ last.data = "noop"
    /\ Len(calls) = 1
    /\ calls[1].m = "answerCallbackQuery"
    /\ DeskShows(state, tg) = "Configs"

\* the texts of the confirmation prompts
Prompts == {"ConfirmRestart", "ConfirmStop", "ConfirmUpdate", "ConfirmReboot"}

\* the step is the part of _main_loop that precedes its loop
StartupStep == pc = "boot" /\ pc' = "loop"

ConfirmNode ==
    [restart_conduit_confirm |-> "ConfirmRestart",
     stop_conduit_confirm |-> "ConfirmStop",
     update_confirm |-> "ConfirmUpdate",
     reboot_confirm |-> "ConfirmReboot"]

\* C34: a stop, restart, update or reboot is performed for a _confirm token only
\* when the command desk displays the matching confirmation node; a _confirm press
\* that arrives while the desk displays another node (a stale or repeated press)
\* runs no service command.
C34_ConfirmOnlyFromPrompt ==
    [][ \A token \in DOMAIN ConfirmNode :
          (OwnerPress(token) /\ DeskShows(state, tg) # ConfirmNode[token]) =>
              Count(calls', IsService) = 0 ]_vars

-----------------------------------------------------------------------------
(* Properties of SpecStatus: the rate limit of the status button *)

LastPress(st) == Get(st.last_status_press, Owner, 0)

\* the one acknowledgment of the step carries this text
AckedWith(cs, text) ==
    /\ Count(cs, LAMBDA c : c.m = "answerCallbackQuery") = 1
    /\ Count(cs, LAMBDA c : c.m = "answerCallbackQuery" /\ c.arg = text) = 1

-----------------------------------------------------------------------------
(* Properties of SpecMain: launch, supervision and termination *)

\* every required setting has a value and the state document names the owner
Complete == required \subseteq runtime /\ state.owner_chat_id # NoOwner

\* C21 as stated: if a required setting (BOT_TOKEN, METRICS_URL, CONDUIT_ENV_PATH,
\* STATE_DIR or the owner chat id) is missing at launch, the process aborts before
\* entering the polling loop and terminates; it does not keep running or retry.
C21_AbortsForGood ==
    [][ /\ (pc = "boot" /\ ~Complete /\ pc' # "boot") => pc' = "exited"
        /\ (pc = "backoff" /\ ~Complete) => pc' # "boot" ]_vars

\* C21, amended: if a required setting is missing at launch, _main_loop raises before
\* it enters the polling loop and before it makes any call or writes the state; the
\* process does not terminate: main() sleeps 30 seconds and calls _main_loop again,
\* as often as the setting stays missing. Only KeyboardInterrupt ends the process.
C21_BacksOffAndRetries ==
    [][ /\ pc' = "loop" => Complete
        /\ (pc = "boot" /\ ~Complete /\ pc' # "boot") =>
              \/ pc' = "backoff" /\ calls' = <<>> /\ tg' = tg /\ disk' = disk
              \/ pc' = "exited" /\ last'.op = "interrupt"
        /\ (pc = "backoff" /\ pc' # "backoff") =>
              \/ pc' = "boot" /\ clock' = clock + backoff_sec /\ state' = disk
              \/ pc' = "exited" /\ last'.op = "interrupt"
        /\ (pc # "exited" /\ pc' = "exited") => last'.op = "interrupt" ]_vars

\* the launch failed on a missing setting, main() slept and called _main_loop again,
\* the setting still missing
C21_Witness ==
    /\ pc = "boot"
    /\ last.op = "retry"
    /\ ~Complete
    /\ clock = Epoch + backoff_sec

\* C22: when KeyboardInterrupt arrives, during startup or inside the polling loop, the
\* process leaves the outer retry loop and terminates; it does not re-enter
\* _main_loop.
C22_InterruptTerminates ==
    [][ last'.op = "interrupt" => pc' = "exited" ]_vars

\* the step is the loop body for an owner's press whose branch raises
RaisingStep ==
    /\ pc = "loop"
    /\ batch # <<>>
    /\ Head(batch).kind = "callback_query"
    /\ Head(batch).chat = Owner
    /\ Head(batch).data = "reboot_cancel"
    /\ last'.op = "callback"

\* C28: an exception raised inside one loop iteration is caught at the iteration
\* boundary (the rest of the iteration is given up, the process stays in its loop
\* with the state it has in memory); an error that escapes _main_loop makes main()
\* wait 30 seconds and call _main_loop again, which loads the state from disk and
\* restores offset from it before entering the loop.
C28_CaughtOrSupervised ==
    [][ /\ RaisingStep =>
              /\ pc' = "loop"
              /\ batch' = <<>>
              /\ state' = [state EXCEPT !.last_update_id = Head(batch).update_id]
              /\ disk' = disk
        /\ (pc = "boot" /\ pc' \notin {"boot", "loop"}) =>
              \/ pc' = "backoff" /\ last'.op = "startup failed"
              \/ pc' = "exited" /\ last'.op = "interrupt"
        /\ (pc = "backoff" /\ pc' = "boot") =>
              /\ clock' = clock + backoff_sec
              /\ state' = disk
              /\ offset' = 0
              /\ batch' = <<>>
        /\ (pc = "boot" /\ pc' = "loop") =>
              /\ state = disk
              /\ offset' = (IF disk.last_update_id # 0 THEN disk.last_update_id + 1 ELSE 0)
      ]_vars

\* the first call of _main_loop failed, main() slept 30 seconds, and the second call
\* has entered the loop
C28_Witness ==
    /\ pc = "loop"
    /\ last.op = "startup"
    /\ clock = Epoch + backoff_sec
    /\ runtime = required
    /\ state.owner_chat_id = OwnerChat

\* the updates Telegram returns for getUpdates(off)
Pending(off) == SelectSeq(inbox, LAMBDA u : u.update_id >= off)

\* C39: an update whose handler raises is not handled again in the same run, since
\* offset has moved past it and never decreases within a run, while the updates that
\* followed it in the batch stay in Telegram's queue at or above offset: every later
\* fetch of the run returns them and does not return the update that raised.
C39_RaisedOnceRestAgain ==
    [][ /\ RaisingStep =>
              /\ pc' = "loop"
              /\ offset' = Head(batch).update_id + 1
              /\ Head(batch).update_id \in handled'.done
              /\ \A i \in 2..Len(batch) :
                    \E j \in 1..Len(Pending(offset')) : Pending(offset')[j] = batch[i]
        /\ (pc = "loop" /\ pc' = "loop") =>
              /\ offset' >= offset
              /\ batch' # batch =>
                    IF batch = <<>> THEN batch' = Pending(offset)
                    ELSE batch' \in {<<>>, Tail(batch)}
        /\ (pc = "loop" /\ batch # <<>> /\ state.last_update_id # 0) =>
              Head(batch).update_id > state.last_update_id
      ]_vars

\* reboot_cancel (update 1) raised and nothing of it was saved; in the same run the
\* next fetch has returned the update that followed it, and not update 1
C39_Witness ==
    /\ pc = "loop"
    /\ 1 \in handled.done
    /\ state.last_update_id = 1
    /\ disk.last_update_id = 0
    /\ offset = 2
    /\ Len(batch) = 1
    /\ batch[1].update_id = 2
    /\ batch[1].data = "cmd_reboot"

-----------------------------------------------------------------------------
(* Properties of SpecSave: the atomic save *)

\* C29: with the process killed at any point of save_state (before, during or after
\* the writing of the temporary file, before or after the rename), bot_state.json
\* always holds a complete document, the previous one or the one being saved: it
\* changes only in the rename, to the complete new state, and what the next process
\* loads is that complete document.
C29_AtomicSave ==
    [][ /\ files'.json.written = Chunks
        /\ disk' = files'.json.doc
        /\ files'.json # files.json =>
              /\ pc = "saving"
              /\ files'.json = File(state, Chunks)
        /\ (pc = "boot" /\ pc' = "loop") =>
              /\ state' = files.json.doc
              /\ state'.owner_chat_id = OwnerChat ]_vars

\* the process was killed while the temporary file was half written; the next
\* process has loaded the complete previous document, the torn file lying beside it
C29_Witness ==
    /\ last.op = "load"
    /\ files.tmp.written \in 1..(Chunks - 1)
    /\ files.tmp.doc # files.json.doc
    /\ state = files.json.doc
    /\ state.last_update_id # 0

-----------------------------------------------------------------------------
(* Properties of SpecReplace: the update and the reboot that end the process *)

IsUpdate(c) == c.m = "os.system" /\ c.arg = "bash /opt/easyconduit/bin/update.sh"

IsReboot(c) == c.m = "os.system" /\ c.arg = "reboot"

IsDeskCall(c) == c.m \in {"editMessageText", "sendMessage"} /\ c.arg = "command"

\* the positions of the calls of cs that satisfy P
Positions(cs, P(_)) == {i \in 1..Len(cs) : P(cs[i])}

\* what an owner's update_confirm does about the cursor and the update procedure: the
\* press was not handled before, the update procedure is started once, after the
\* calls on the desk, and the document on disk carries the id of the press even when
\* the process ends inside the update
UpdateStartedOnceSaved ==
    /\ Head(batch).update_id \notin handled.sent
    /\ Count(calls', IsUpdate) = 1
    /\ Count(calls', IsService) = 1
    /\ Count(calls', IsDeskCall) >= 1
    /\ \A i \in Positions(calls', IsDeskCall), j \in Positions(calls', IsUpdate) : i < j
    /\ disk'.last_update_id = Head(batch).update_id

C35_NoRebootLoop ==
    [][ OwnerPress("reboot_confirm") =>
            /\ Head(batch).update_id \notin handled.sent
            /\ Count(calls', IsReboot) = 1 =>
                  disk'.last_update_id = Head(batch).update_id ]_vars

-----------------------------------------------------------------------------
(* Properties of SpecStarve: events while the refresh pass raises *)

\* C38: a refresh pass that raises in an iteration does not keep inbound events from
\* being fetched and handled: every update Telegram holds for the bot is handled in
\* the end, even when the refresh raises in every iteration.
C38_EventsStillHandled ==
    \A id \in 1..MaxUpdates : [](id < next_update_id => <>(id \in handled.done))

\* nothing but the failing save stands between the events and their handlers: as
\* long as the state directory takes writes, every update is handled in the end
HandledWhileWritable ==
    \A id \in 1..MaxUpdates :
        [](id < next_update_id => <>(id \in handled.done \/ ~Writable))

====
